---- MODULE Spec2Model ----
(***************************************************************************)
(* Request handling of the textbook RAG chatbot: the streaming handler     *)
(* chat_stream (api/src/routes/chat.py) with the LLMService fallback chain *)
(* and the local extractive responder, the multi-agent handler             *)
(* MainAgent.handle_request (src/rag_chatbot) and the session handler chat *)
(* (working_rag_chatbot.py); RAGService.build_context; the markdown        *)
(* chunker chunk_file (api/src/services/utils/chunker.py); and the two     *)
(* ingestion runs, index_content (api/scripts) and                         *)
(* ContentIngestionService.bulk_ingest (backend).                          *)
(*                                                                         *)
(* A text is a sequence of tokens.  A token is a run of whitespace (" " or *)
(* "\n"), a punctuation mark or a word; str.split(), str.strip(), the `in` *)
(* substring test and re.split are computed over these tokens.  The        *)
(* chunker and the ingestion work on texts as sequences of characters.     *)
(***************************************************************************)
EXTENDS Integers, Sequences, FiniteSets, TLC

\* ------------------------------------------------------------------ text

WS == {" ", "\n"}

Punct == {".", "!", "?"}

\* the words w joined by single spaces ("a b c")
Sp(w) ==
  [i \in 1..(IF Len(w) = 0 THEN 0 ELSE 2 * Len(w) - 1) |->
      IF i % 2 = 1 THEN w[(i + 1) \div 2] ELSE " "]

RECURSIVE JoinWith(_, _)
\* sep.join(parts)
JoinWith(parts, sep) ==
  IF Len(parts) = 0 THEN <<>>
  ELSE IF Len(parts) = 1 THEN parts[1]
  ELSE parts[1] \o sep \o JoinWith(Tail(parts), sep)

RECURSIVE SplitFrom(_, _, _)
SplitFrom(t, i, cur) ==
  IF i > Len(t) THEN (IF cur = "" THEN <<>> ELSE <<cur>>)
  ELSE IF t[i] \in WS
       THEN (IF cur = "" THEN <<>> ELSE <<cur>>) \o SplitFrom(t, i + 1, "")
       ELSE SplitFrom(t, i + 1, cur \o t[i])

\* str.split(): the maximal runs of non-whitespace, each glued into one word
Split(t) == SplitFrom(t, 1, "")

RECURSIVE Strip(_)
\* str.strip()
Strip(t) ==
  IF Len(t) = 0 THEN t
  ELSE IF t[1] \in WS THEN Strip(Tail(t))
  ELSE IF t[Len(t)] \in WS THEN Strip(SubSeq(t, 1, Len(t) - 1))
  ELSE t

\* str.lower() of one token, for the tokens of the model's vocabulary
LowerTok(tok) ==
  CASE tok = "Hello"   -> "hello"
    [] tok = "Balance" -> "balance"
    [] tok = "The"     -> "the"
    [] tok = "Robots"  -> "robots"
    [] OTHER           -> tok

Lower(t) == [i \in 1..Len(t) |-> LowerTok(t[i])]

\* `p in t` where the needle p is a token sequence lying on token boundaries
Infix(p, t) ==
  \E i \in 1..(Len(t) - Len(p) + 1) : SubSeq(t, i, i + Len(p) - 1) = p

\* the keywords of the program's lists that occur inside one lower-case token
\* of the vocabulary as a substring ("explain" contains "ai", "this" "hi")
SubstrOf(tok) ==
  CASE tok = "hello"     -> {"hello"}
    [] tok = "pizza"     -> {"pizza"}
    [] tok = "best"      -> {"best"}
    [] tok = "explain"   -> {"explain", "ai"}
    [] tok = "robot"     -> {"robot"}
    [] tok = "robots"    -> {"robot", "robots"}
    [] tok = "balance"   -> {"balance"}
    [] tok = "what"      -> {"what"}
    [] tok = "off-topic" -> {"top", "topic", "off", "off-topic"}
    [] tok = "good"      -> {"good"}
    [] tok = "morning"   -> {"morning"}
    [] tok = "this"      -> {"hi", "this"}
    [] tok = "thanks"    -> {"thanks"}
    [] tok = "control"   -> {"control"}
    [] tok = "sensors"   -> {"sensors", "sensor"}
    [] tok = "weather"   -> {"weather"}
    [] tok = "nice"      -> {"nice"}
    [] tok = "uses"      -> {"uses"}
    [] tok = "keep"      -> {"keep"}
    [] OTHER             -> {}

\* `kw in t` for a one-word keyword kw and a lower-case text t
HasWord(kw, t) == \E i \in 1..Len(t) : kw \in SubstrOf(t[i])

\* any(kw in t for kw in singles + phrases)
HasAny(singles, phrases, t) ==
  \/ \E kw \in singles : HasWord(kw, t)
  \/ \E p \in phrases : Infix(p, t)

\* len(text) in characters
RECURSIVE CharLen(_)
CharLen(t) == IF Len(t) = 0 THEN 0 ELSE Len(t[1]) + CharLen(Tail(t))

\* ------------------------------------------------- retrieval (rag.py)

\* metadata.get(key, default) finds no such key
Missing == "<missing>"

Hit1 == [text |-> <<"Balance", " ", "control", " ", "uses", " ", "sensors", ".">>,
         section_title |-> "Balance", source_url |-> "/ch2"]

Hit2 == [text |-> <<"The", " ", "weather", " ", "is", " ", "nice", ".", " ",
                    "Robots", " ", "keep", " ", "balance", "!">>,
         section_title |-> "Balance", source_url |-> "/ch2"]

Hit3 == [text |-> <<" ">>, section_title |-> Missing, source_url |-> Missing]

\* a hit whose metadata holds the very values source_info defaults to
Hit4 == [text |-> <<"Sensors", ".">>, section_title |-> "Unknown Section",
         source_url |-> ""]

\* a hit of another section of the page of Hit1
Hit5 == [text |-> <<"Gait", ".">>, section_title |-> "Gait", source_url |-> "/ch2"]

\* what the vector index can answer to one search
HitLists == {<<>>, <<Hit1, Hit2>>, <<Hit3>>}

\* str(e) of the exception an embedding, search or provider call raises
ExcText == <<"ConnectionError:", " ", "timed", " ", "out">>

\* the outcomes of one call of retrieve: rag.py has no try, so an exception of
\* embed_text or client.search propagates to the caller
\* the entry a call of retrieve leaves in the call log
RetrieveCall(r) == IF r.raised THEN "retrieve_failed" ELSE "retrieve"

RetrieveOutcomes ==
  {[raised |-> TRUE, hits |-> <<>>]} \cup {[raised |-> FALSE, hits |-> h] : h \in HitLists}

source_info(hit) ==
  [title |-> IF hit.section_title = Missing THEN "Unknown Section" ELSE hit.section_title,
   url   |-> IF hit.source_url = Missing THEN "" ELSE hit.source_url]

RECURSIVE build_sources(_, _)
build_sources(hits, srcs) ==
  IF Len(hits) = 0 THEN srcs
  ELSE build_sources(Tail(hits),
         IF \E i \in 1..Len(srcs) : srcs[i] = source_info(hits[1])
         THEN srcs ELSE Append(srcs, source_info(hits[1])))

\* build_context without the membership test of line 92
build_context_NoDedup(hits) ==
  [context |-> JoinWith([i \in 1..Len(hits) |-> hits[i].text], <<"\n", "\n">>),
   sources |-> [i \in 1..Len(hits) |-> source_info(hits[i])]]

build_context(hits) ==
  [context |-> JoinWith([i \in 1..Len(hits) |-> hits[i].text], <<"\n", "\n">>),
   sources |-> build_sources(hits, <<>>)]

\* ------------------------------- local extractive responder

OffTopicMsg ==
  Sp(<<"I", "can", "only", "answer", "questions", "about", "the", "Physical",
       "AI", "&", "Humanoid", "Robotics", "textbook.", "Please", "ask",
       "questions", "related", "to", "the", "book", "content.">>)

NoInfoMsg ==
  Sp(<<"I", "couldn't", "find", "relevant", "information", "in", "the", "book",
       "to", "answer", "your", "question.">>)

BasedOn == Sp(<<"Based", "on", "the", "book", "content:">>)

local_book_related_keywords ==
  {"humanoid", "robotics", "ai", "robot", "perception", "navigation",
   "manipulation", "control", "locomotion", "embodied", "cognition", "robotic",
   "sensors", "actuators", "bipedal", "gait", "balance", "human-robot",
   "interaction", "embodiment", "grounded"}

local_book_related_phrases ==
  {Sp(<<"physical", "ai">>), Sp(<<"artificial", "intelligence">>),
   Sp(<<"machine", "learning">>)}

stop_words ==
  {"the", "a", "an", "and", "or", "but", "in", "on", "at", "to", "for", "of",
   "with", "by", "is", "are", "was", "were", "be", "been", "being", "have",
   "has", "had", "do", "does", "did", "will", "would", "could", "should", "may",
   "might", "must", "can", "this", "that", "these", "those"}

\* re.findall(r'\b\w+\b', tok) for one lower-case token
WordsOfTok(tok) ==
  IF tok \in WS \cup Punct THEN <<>>
  ELSE IF tok = "off-topic" THEN <<"off", "topic">>
  ELSE <<tok>>

RECURSIVE FindWords(_)
FindWords(t) == IF Len(t) = 0 THEN <<>> ELSE WordsOfTok(t[1]) \o FindWords(Tail(t))

KeepKeyword(w) == w \notin stop_words /\ Len(w) > 2

_extract_keywords(text) == SelectSeq(FindWords(text), KeepKeyword)

RECURSIVE SentencesFrom(_, _, _)
SentencesFrom(t, i, cur) ==
  IF i > Len(t) THEN <<cur>>
  ELSE IF t[i] \in Punct
       THEN (IF i > 1 /\ t[i - 1] \in Punct THEN <<>> ELSE <<cur>>)
            \o SentencesFrom(t, i + 1, <<>>)
       ELSE SentencesFrom(t, i + 1, Append(cur, t[i]))

\* re.split(r'[.!?]+', context)
SplitSentences(t) == SentencesFrom(t, 1, <<>>)

RECURSIVE Matches(_, _)
\* sum(1 for keyword in keywords if keyword in s.lower())
Matches(s, keywords) ==
  IF Len(keywords) = 0 THEN 0
  ELSE (IF HasWord(keywords[1], Lower(s)) THEN 1 ELSE 0) + Matches(s, Tail(keywords))

\* a sort that leaves the sentences in the order of the context
SortedFrom_Unsorted(ss, keywords, k) == ss

RECURSIVE SortedFrom(_, _, _)
\* list.sort(key=matches, reverse=True): stable, highest count first
SortedFrom(ss, keywords, k) ==
  IF k = 0 THEN <<>>
  ELSE SelectSeq(ss, LAMBDA s : Matches(s, keywords) = k)
       \o SortedFrom(ss, keywords, k - 1)

_find_relevant_sentences(text, keywords) ==
  LET sentences == SplitSentences(text)
      clean     == [i \in 1..Len(sentences) |-> Strip(sentences[i])]
      relevant  == SelectSeq(clean,
                             LAMBDA s : Matches(s, keywords) > 0 /\ s # <<>>)
  IN  SortedFrom(relevant, keywords, Len(keywords))

RECURSIVE TakeChars(_, _)
\* context[:n], cut on a token boundary
TakeChars(t, n) ==
  IF Len(t) = 0 \/ Len(t[1]) > n THEN <<>>
  ELSE <<t[1]>> \o TakeChars(Tail(t), n - Len(t[1]))

PrefixLimit == 500

Head3(ss) == SubSeq(ss, 1, IF Len(ss) < 3 THEN Len(ss) ELSE 3)

\* LocalResponseService.generate_response(prompt, context); r is the outcome
\* of the retrieve call it makes when it is given no context
local_generate_response(prompt, given, r) ==
  LET is_related == HasAny(local_book_related_keywords,
                           local_book_related_phrases, Lower(prompt))
      retrieves  == is_related /\ given = <<>>
      ctx        == IF retrieves THEN build_context(r.hits).context ELSE given
      keywords   == _extract_keywords(Lower(prompt))
      relevant   == _find_relevant_sentences(ctx, keywords)
      text ==
        IF ~is_related /\ given = <<>> THEN OffTopicMsg
        ELSE IF Strip(ctx) = <<>> /\ ~is_related THEN OffTopicMsg
        ELSE IF Strip(ctx) = <<>> THEN NoInfoMsg
        ELSE IF relevant # <<>>
             THEN BasedOn \o <<"\n", "\n">> \o JoinWith(Head3(relevant), <<"\n">>)
        ELSE IF CharLen(ctx) > PrefixLimit
             THEN BasedOn \o <<" ">> \o TakeChars(ctx, PrefixLimit) \o <<"...">>
        ELSE BasedOn \o <<" ">> \o ctx
  IN  IF retrieves /\ r.raised
      THEN [raised |-> TRUE, text |-> <<>>, retrieved |-> TRUE]
      ELSE [raised |-> FALSE, text |-> text, retrieved |-> retrieves]


\* ------------------------------------- query classifier (chat.py)

off_topic_keywords ==
  {"cook", "food", "recipe", "pasta", "pizza", "weather", "sports", "movie",
   "film", "music", "celebrity", "actor", "actress", "game", "football",
   "basketball", "soccer", "stock", "finance", "money", "investment",
   "politics", "election", "president", "health", "medical", "doctor",
   "medicine", "treatment", "disease", "virus", "travel", "vacation", "hotel",
   "restaurant", "tourist", "sightseeing", "car", "automobile", "driving",
   "engine", "mechanic", "gasoline", "fashion", "clothing", "dress", "shoes",
   "designer", "style", "education", "school", "university", "student",
   "teacher", "classroom", "programming", "software", "computer", "code",
   "developer", "python", "javascript"}

general_keywords == {"hello", "hi"}

general_phrases ==
  {Sp(<<"how", "are", "you">>), Sp(<<"what", "is", "your", "name">>),
   Sp(<<"who", "are", "you">>), Sp(<<"what", "can", "you", "do">>)}

book_related_keywords ==
  {"humanoid", "robot", "robotics", "ai", "embodied", "cognition", "perception",
   "locomotion", "manipulation", "control", "sensors", "actuators",
   "navigation", "gait", "balance", "bipedal", "human-robot", "interaction",
   "embodiment", "grounded", "sensory", "motor", "behavior", "learning",
   "neural", "network"}

book_related_phrases ==
  {Sp(<<"artificial", "intelligence">>), Sp(<<"physical", "ai">>),
   Sp(<<"machine", "learning">>)}

off_topic_patterns == {"favorite", "best", "top"}

off_topic_pattern_phrases ==
  {Sp(<<"how", "to", "make">>), Sp(<<"how", "to", "cook">>),
   Sp(<<"recipe", "for">>), Sp(<<"weather", "in">>),
   Sp(<<"what", "time", "is">>), Sp(<<"where", "is">>),
   Sp(<<"how", "far", "is">>), Sp(<<"when", "was">>),
   Sp(<<"who", "invented">>), Sp(<<"who", "discovered">>),
   Sp(<<"who", "created">>)}

\* Optional[str]: None is the empty text, which `if off_topic_response:` treats
\* like None
NoneText == <<>>

check_off_topic_query(msg) ==
  LET message_lower == Lower(msg)
  IN  IF HasAny(off_topic_keywords, {}, message_lower) THEN OffTopicMsg
      ELSE IF HasAny(general_keywords, general_phrases, message_lower) THEN NoneText
      ELSE IF /\ ~HasAny(book_related_keywords, book_related_phrases, message_lower)
              /\ HasAny(off_topic_patterns, off_topic_pattern_phrases, message_lower)
           THEN OffTopicMsg
      ELSE NoneText

\* ------------------------------------ LLM services (api llm_service.py)

MsgNotAvailableNow ==
  Sp(<<"Sorry,", "the", "AI", "service", "is", "not", "available", "at", "the",
       "moment.">>)

MsgNotAvailable ==
  Sp(<<"Sorry,", "the", "AI", "service", "is", "not", "available.">>)

MsgNoResponse == Sp(<<"I", "couldn't", "generate", "a", "response.">>)

MsgError ==
  Sp(<<"Sorry,", "I", "encountered", "an", "error", "processing", "your",
       "request.">>)

\* the answer a provider gives when its API call succeeds
LLMAnswer ==
  <<"Humanoid", " ", " ", "robots", "\n", "keep", " ", "balance", ".", " ">>

\* what one provider's API call does during a request
ApiOutcomes == {"ok", "empty", "raise"}

\* OpenRouterService.generate_response / GeminiService.generate_response: the
\* API call sits inside try/except Exception, so the method never raises
provider_generate_response(svc, outcome) ==
  IF ~svc.client THEN [raised |-> FALSE, text |-> MsgNotAvailable, called |-> FALSE]
  ELSE IF outcome = "raise" THEN [raised |-> FALSE, text |-> MsgError, called |-> TRUE]
  ELSE IF outcome = "empty" THEN [raised |-> FALSE, text |-> MsgNoResponse, called |-> TRUE]
  ELSE [raised |-> FALSE, text |-> LLMAnswer, called |-> TRUE]

\* LLMService.__init__: the provider constructors catch their own exceptions,
\* so a service object exists whenever its key is set
NoService == [present |-> FALSE, client |-> FALSE]

init_openrouter_service(key, clientOk) ==
  IF key THEN [present |-> TRUE, client |-> clientOk] ELSE NoService

init_gemini_service(key, modelOk) ==
  IF key THEN [present |-> TRUE, client |-> modelOk] ELSE NoService

init_primary_service(orKey, gemKey) ==
  IF orKey THEN "openrouter" ELSE IF gemKey THEN "gemini" ELSE "none"

Called(name, r) == IF r.called THEN <<name>> ELSE <<>>

\* LLMService.generate_response(prompt, context)
llm_generate_response(primary, orSvc, gemSvc, outcomes) ==
  LET other == IF primary = "openrouter" THEN "gemini" ELSE "openrouter"
      svc(n) == IF n = "openrouter" THEN orSvc ELSE gemSvc
      r1 == provider_generate_response(svc(primary), outcomes[primary])
      r2 == provider_generate_response(svc(other), outcomes[other])
  IN  IF primary = "none"
      THEN [raised |-> FALSE, text |-> MsgNotAvailableNow, calls |-> <<>>]
      ELSE IF ~r1.raised
      THEN [raised |-> FALSE, text |-> r1.text, calls |-> Called(primary, r1)]
      ELSE IF svc(other).present
      THEN [raised |-> r2.raised, text |-> r2.text,
            calls |-> Called(primary, r1) \o Called(other, r2)]
      ELSE [raised |-> FALSE, text |-> MsgNotAvailableNow,
            calls |-> Called(primary, r1)]

\* "Sorry, I encountered an error" in t or "encountered an error" in t
HasErrorSignature(t) ==
  \/ Infix(Sp(<<"Sorry,", "I", "encountered", "an", "error">>), t)
  \/ Infix(Sp(<<"encountered", "an", "error">>), t)


\* ------------------------------------------- chat_stream (chat.py)

VARIABLES
  openrouter_service,  \* LLMService.openrouter_service: present, client set
  gemini_service,      \* LLMService.gemini_service: present, model set
  primary_service,     \* LLMService.primary_service
  pc,                  \* where the generator of the current request stands
  message,             \* chat_stream arguments
  selected_text,
  current_page,
  api,                 \* what each provider's API does during this request
  events,              \* the SSE events yielded so far
  context,             \* full_context, then the handler's context
  sources,
  response_text,
  words,               \* response_text.split()
  response_by,         \* which code produced response_text
  word_i,              \* index of the next word to stream
  calls,               \* retrieval, provider-API and local-responder calls made
  llm_api_key,         \* settings.LLM_API_KEY of src/rag_chatbot is set
  agent_pc,            \* where process_query / handle_request stands
  agent_query,
  is_relevant,         \* MainAgent.handle_request: check_query_relevance result
  retrieval_results,   \* contents of the RetrievalResult list
  agent_calls,         \* relevance, embedding, search and generation calls made
  agent_out,           \* what process_query returns or raises
  bc_pc,               \* RAGService.build_context: called or returned
  bc_hits,             \* its argument
  bc_out,              \* what it returned
  ck_pc,               \* where chunk_file stands
  ck_doc,              \* the content of the markdown file
  ck_max,              \* max_tokens
  ck_overlap,          \* overlap_tokens
  ck_texts,            \* heading_chunks, the result of split_by_headings
  ck_i,                \* chunk_with_token_limit: index of the text looked at
  ck_final,            \* result_chunks of chunk_with_token_limit
  ck_start,            \* split_large_text: start_idx
  ck_windows,          \* split_large_text: chunks, with the slice each came from
  ck_result,           \* what chunk_file returns
  in_path,             \* the ingestion run: index_content or bulk_ingest
  in_docs,             \* the files, or the documents loaded from them
  in_key,              \* settings.OPENAI_API_KEY is set
  in_pc,               \* where the run stands
  in_run,              \* first or second ingestion of the same files
  in_k,                \* index of the file or document in the loop
  in_attempts,         \* how often each one was handed to the chunker
  in_chunks,           \* all_chunks, or chunks inside _chunk_text
  in_start,            \* _chunk_text: start_idx
  in_results,          \* results of bulk_ingest
  in_ready,            \* what initialize_rag_system returns
  in_points,           \* the points of the collection
  in_uuids,            \* how many ids uuid4 has handed out
  in_first,            \* the collection after the first ingestion
  lr_pc,               \* LocalResponseService.generate_response: called, returned
  lr_prompt,           \* its arguments
  lr_context,
  lr_out,              \* what it returned or that it raised
  col_size,            \* vector size of the collection textbook_content, 0: absent
  col_log,             \* the vectors sent to the collection, oldest first
  index_pc,            \* the index_content script: idle, ensured, done
  ingestion_pc,        \* ContentIngestionService: absent, constructed, ingested
  gs_pc,               \* LLMService.generate_streaming_response: called, exhausted
  gs_api,              \* what the provider's streaming API call would deliver
  gs_out,              \* the fragments the generator yielded to its consumer
  gs_returned,         \* the value of its return statement, if it ran one
  conversation_store,  \* working_rag_chatbot: session id -> list of messages
  chat_pending,        \* the POST /chat requests in flight
  chat_done,           \* the requests answered, in the order of their handling
  chat_arrived,        \* how many requests have arrived
  uuids_issued         \* how many ids uuid4 has handed out to the chatbot

streamVars ==
  <<pc, message, selected_text, current_page, api, events, context, sources,
    response_text, words, response_by, word_i, calls>>

llmVars == <<openrouter_service, gemini_service, primary_service>>

agentVars ==
  <<llm_api_key, agent_pc, agent_query, is_relevant, retrieval_results,
    agent_calls, agent_out>>

ctxVars == <<bc_pc, bc_hits, bc_out>>

chunkVars ==
  <<ck_pc, ck_doc, ck_max, ck_overlap, ck_texts, ck_i, ck_final, ck_start,
    ck_windows, ck_result>>

ingestVars ==
  <<in_path, in_docs, in_key, in_pc, in_run, in_k, in_attempts, in_chunks,
    in_start, in_results, in_ready, in_points, in_uuids, in_first>>

localVars == <<lr_pc, lr_prompt, lr_context, lr_out>>

\* the state of the functions that are examined one at a time
colVars == <<col_size, col_log, index_pc, ingestion_pc>>

genVars == <<gs_pc, gs_api, gs_out, gs_returned>>

chatVars ==
  <<conversation_store, chat_pending, chat_done, chat_arrived, uuids_issued>>

moreVars == <<localVars, colVars, genVars, chatVars>>

toolVars == <<ctxVars, chunkVars, ingestVars, moreVars>>

vars == <<llmVars, streamVars, agentVars, toolVars>>

\* what the steps of chat_stream leave alone
notStream == <<llmVars, agentVars, toolVars>>

\* what the steps of process_query leave alone
notAgent == <<llmVars, streamVars, toolVars>>

Queries ==
  {<<"hello">>,
   <<"Hello", " ", "pizza">>,
   <<"best", " ", "pizza">>,
   <<"explain", " ", "robot", " ", "balance">>,
   <<"what", " ", "is", " ", "off-topic">>,
   <<"good", " ", "morning">>,
   <<"what", " ", "is", " ", "this">>,
   <<"thanks">>}

SelectedTexts == {NoneText, <<"robots", " ", "keep", " ", "balance">>}

PageTexts == {NoneText, <<"control">>}

ProcessingMsg == "Processing your request..."

CannedFallback ==
  "Based on the book: I found information about this topic in the book, but I'm having trouble generating a full response. Please check if the book content covers this topic."

Chunk(d) == [event |-> "chunk", data |-> d, sources |-> <<>>]

SourcesEvent(src) == [event |-> "sources", data |-> "json", sources |-> src]

DoneEvent == [event |-> "done", data |-> "true", sources |-> <<>>]

\* the API behaviours a request can meet: only a provider with a client makes
\* API calls
ApiChoices(svc) == IF svc.client THEN ApiOutcomes ELSE {"unused"}

StreamIdle ==
  /\ pc = "idle" /\ message = <<>> /\ selected_text = NoneText
  /\ current_page = NoneText /\ events = <<>> /\ context = <<>>
  /\ sources = <<>> /\ response_text = <<>> /\ words = <<>>
  /\ response_by = "none"
  /\ word_i = 0 /\ calls = <<>>
  /\ api = [openrouter |-> "unused", gemini |-> "unused"]

NoOutput ==
  [status |-> "none", response |-> <<>>, is_off_topic |-> FALSE, detail |-> <<>>]

AgentIdle ==
  /\ agent_pc = "idle" /\ agent_query = <<>> /\ is_relevant = TRUE
  /\ retrieval_results = <<>> /\ agent_calls = <<>> /\ agent_out = NoOutput

NoContext == [context |-> <<>>, sources |-> <<>>]

CtxIdle == bc_pc = "idle" /\ bc_hits = <<>> /\ bc_out = NoContext

ChunkIdle ==
  /\ ck_pc = "idle" /\ ck_doc = <<>> /\ ck_max = 0 /\ ck_overlap = 0
  /\ ck_texts = <<>> /\ ck_i = 0 /\ ck_final = <<>> /\ ck_start = 0
  /\ ck_windows = <<>> /\ ck_result = <<>>

NoResults == [successful |-> 0, failed |-> 0, errors |-> <<>>]

NoSnapshot == [complete |-> FALSE, points |-> {}]

IngestIdle ==
  /\ in_path = "none" /\ in_docs = <<>> /\ in_key = FALSE /\ in_pc = "idle"
  /\ in_run = 0 /\ in_k = 0 /\ in_attempts = <<>> /\ in_chunks = <<>>
  /\ in_start = 0 /\ in_results = NoResults /\ in_ready = "unset"
  /\ in_points = {} /\ in_uuids = 0 /\ in_first = NoSnapshot

NoAnswer == [raised |-> FALSE, text |-> <<>>, retrieved |-> FALSE]

LocalIdle ==
  lr_pc = "idle" /\ lr_prompt = <<>> /\ lr_context = <<>> /\ lr_out = NoAnswer

ColIdle ==
  col_size = 0 /\ col_log = <<>> /\ index_pc = "idle" /\ ingestion_pc = "absent"

NoApiStream == [deltas |-> <<>>, raises |-> FALSE, after |-> 0]

GenIdle ==
  gs_pc = "idle" /\ gs_api = NoApiStream /\ gs_out = <<>> /\ gs_returned = "none"

\* conversation_store = {} of line 14, no request yet
ChatIdle ==
  /\ conversation_store = <<>> /\ chat_pending = {} /\ chat_done = <<>>
  /\ chat_arrived = 0 /\ uuids_issued = 0

MoreIdle == LocalIdle /\ ColIdle /\ GenIdle /\ ChatIdle

ToolsIdle == CtxIdle /\ ChunkIdle /\ IngestIdle /\ MoreIdle

Init ==
  /\ ToolsIdle
  /\ \E orKey, gemKey, orOk, gemOk \in BOOLEAN :
       /\ openrouter_service = init_openrouter_service(orKey, orOk)
       /\ gemini_service = init_gemini_service(gemKey, gemOk)
       /\ primary_service = init_primary_service(orKey, gemKey)
  /\ StreamIdle
  /\ AgentIdle
  /\ llm_api_key = FALSE

\* lines 48-52
full_context(ctx, st, cp) ==
  ctx \o (IF st # NoneText
          THEN <<"\n", "\n", "Selected", " ", "text:", " ">> \o st ELSE <<>>)
      \o (IF cp # NoneText
          THEN <<"\n", "\n", "Current", " ", "page", " ", "content:", " ">> \o cp
          ELSE <<>>)

\* The pure functions of the handler as functions over the texts a request
\* can carry, which the steps apply.

\* the contexts the local responder can be given: full_context of the first
\* retrieval (lines 48-52) or the handler's context (line 83)
Contexts ==
  {full_context(build_context(h).context, st, cp) :
     h \in HitLists, st \in SelectedTexts, cp \in PageTexts}
  \cup {build_context(h).context : h \in HitLists}

\* check_off_topic_query(message)
off_topic_response_of == [m \in Queries |-> check_off_topic_query(m)]

\* local_response_service.generate_response(message, context)
local_response_of ==
  [p \in Queries, c \in Contexts, r \in RetrieveOutcomes |->
     local_generate_response(p, c, r)]

\* the texts the off-topic check and the LLM services answer with
FixedTexts ==
  {OffTopicMsg, MsgNotAvailableNow, MsgNotAvailable, MsgNoResponse, MsgError,
   LLMAnswer}

\* response_text.split() of a fixed text (lines 67 and 94)
words_of == [t \in FixedTexts |-> Split(t)]

\* response_text.split() of the local responder's text
local_words_of ==
  [p \in Queries, c \in Contexts, r \in RetrieveOutcomes |->
     Split(local_generate_response(p, c, r).text)]

\* a client posts /chat: EventSourceResponse starts iterating chat_stream
StreamStart ==
  /\ pc = "idle"
  /\ \E m \in Queries, st \in SelectedTexts, cp \in PageTexts,
        o1 \in ApiChoices(openrouter_service), o2 \in ApiChoices(gemini_service) :
       /\ message' = m
       /\ selected_text' = st
       /\ current_page' = cp
       /\ api' = [openrouter |-> o1, gemini |-> o2]
  /\ pc' = "L28"
  /\ UNCHANGED <<events, context, sources, response_text, words, response_by,
                 word_i, calls>>
  /\ UNCHANGED notStream

\* line 28
YieldProcessing ==
  /\ pc = "L28"
  /\ events' = Append(events, Chunk(ProcessingMsg))
  /\ pc' = "L31"
  /\ UNCHANGED <<message, selected_text, current_page, api, context, sources,
                 response_text, words, response_by, word_i, calls>>
  /\ UNCHANGED notStream

\* where the word loop starts for a response text: at the first word, or at
\* the statement after the loop when split() gave no word
LoopOrElse(ws, loop, after) == IF ws = <<>> THEN after ELSE loop

\* lines 31-36: the off-topic check; an off-topic query yields empty sources
CheckOffTopic ==
  /\ pc = "L31"
  /\ LET off_topic_response == off_topic_response_of[message]
     IN  IF off_topic_response # NoneText
         THEN /\ events' = Append(events, SourcesEvent(<<>>))
              /\ response_text' = off_topic_response
              /\ words' = words_of[off_topic_response]
              /\ response_by' = "off_topic"
              /\ word_i' = 1
              /\ pc' = LoopOrElse(words_of[off_topic_response], "L68", "L75")
         ELSE /\ pc' = "L39"
              /\ UNCHANGED <<events, response_text, words, response_by, word_i>>
  /\ UNCHANGED <<message, selected_text, current_page, api, context, sources, calls>>
  /\ UNCHANGED notStream

\* lines 39-40: retrieve and build_context; an exception goes to line 77
Retrieve ==
  /\ pc = "L39"
  /\ \E r \in RetrieveOutcomes :
       /\ calls' = Append(calls, RetrieveCall(r))
       /\ IF r.raised
          THEN /\ pc' = "L82"
               /\ UNCHANGED <<context, sources>>
          ELSE /\ context' = build_context(r.hits).context
               /\ sources' = build_context(r.hits).sources
               /\ pc' = "L45"
  /\ UNCHANGED <<message, selected_text, current_page, api, events,
                 response_text, words, response_by, word_i>>
  /\ UNCHANGED notStream

\* lines 44-52: the sources event, then full_context
YieldSources ==
  /\ pc = "L45"
  /\ events' = Append(events, SourcesEvent(sources))
  /\ context' = full_context(context, selected_text, current_page)
  /\ pc' = "L56"
  /\ UNCHANGED <<message, selected_text, current_page, api, sources,
                 response_text, words, response_by, word_i, calls>>
  /\ UNCHANGED notStream

\* lines 55-58 and 61: the LLM service call and the error-signature test
GenerateLLM ==
  /\ pc = "L56"
  /\ LET r == llm_generate_response(primary_service, openrouter_service,
                                    gemini_service, api)
     IN  /\ calls' = calls \o <<"llm_service">> \o r.calls
         /\ IF r.raised
            THEN /\ pc' = "L64"
                 /\ UNCHANGED <<response_text, words, response_by, word_i>>
            ELSE /\ response_text' = r.text
                 /\ words' = words_of[r.text]
                 /\ response_by' = "llm"
                 /\ word_i' = 1
                 /\ pc' = IF HasErrorSignature(r.text) THEN "L60"
                          ELSE LoopOrElse(words_of[r.text], "L68", "L75")
  /\ UNCHANGED <<message, selected_text, current_page, api, events, context, sources>>
  /\ UNCHANGED notStream

\* line 60 (inside the try) and line 64 (inside except llm_error): the local
\* responder; an exception at 60 is caught at 61, one at 64 goes to line 77
LocalFallback ==
  /\ pc \in {"L60", "L64"}
  /\ \E r \in RetrieveOutcomes :
       LET res == local_response_of[message, context, r]
       IN  /\ calls' = calls \o <<"local">>
                             \o (IF res.retrieved THEN <<RetrieveCall(r)>> ELSE <<>>)
           /\ IF res.raised
              THEN /\ pc' = IF pc = "L60" THEN "L64" ELSE "L82"
                   /\ UNCHANGED <<response_text, words, response_by, word_i>>
              ELSE /\ response_text' = res.text
                   /\ words' = local_words_of[message, context, r]
                   /\ response_by' = "local"
                   /\ word_i' = 1
                   /\ pc' = LoopOrElse(local_words_of[message, context, r],
                                       "L68", "L75")
  /\ UNCHANGED <<message, selected_text, current_page, api, events, context, sources>>
  /\ UNCHANGED notStream

\* the chunk of the i-th word: line 70 / 72 (97 / 99 in the handler)
WordChunk(ws, i) == Chunk(IF i = 1 THEN ws[i] ELSE " " \o ws[i])

\* lines 67-72 and 94-99: one word per chunk event
StreamWord ==
  /\ pc \in {"L68", "L95"}
  /\ word_i <= Len(words)
  /\ events' = Append(events, WordChunk(words, word_i))
  /\ word_i' = word_i + 1
  /\ pc' = IF word_i < Len(words) THEN pc
           ELSE IF pc = "L68" THEN "L75" ELSE "L104"
  /\ UNCHANGED <<message, selected_text, current_page, api, context, sources,
                 response_text, words, response_by, calls>>
  /\ UNCHANGED notStream

\* line 75 and line 104
YieldDone ==
  /\ pc \in {"L75", "L104"}
  /\ events' = Append(events, DoneEvent)
  /\ pc' = "end"
  /\ UNCHANGED <<message, selected_text, current_page, api, context, sources,
                 response_text, words, response_by, word_i, calls>>
  /\ UNCHANGED notStream

\* lines 82-83: the handler retrieves again; an exception goes to line 100
HandlerRetrieve ==
  /\ pc = "L82"
  /\ \E r \in RetrieveOutcomes :
       /\ calls' = Append(calls, RetrieveCall(r))
       /\ IF r.raised
          THEN /\ pc' = "L102"
               /\ UNCHANGED <<context, sources>>
          ELSE /\ context' = build_context(r.hits).context
               /\ sources' = build_context(r.hits).sources
               /\ pc' = "L88"
  /\ UNCHANGED <<message, selected_text, current_page, api, events,
                 response_text, words, response_by, word_i>>
  /\ UNCHANGED notStream

\* lines 87-88
HandlerYieldSources ==
  /\ pc = "L88"
  /\ events' = Append(events, SourcesEvent(sources))
  /\ pc' = "L91"
  /\ UNCHANGED <<message, selected_text, current_page, api, context, sources,
                 response_text, words, response_by, word_i, calls>>
  /\ UNCHANGED notStream

\* line 91: the local responder in the handler; an exception goes to line 100
HandlerLocal ==
  /\ pc = "L91"
  /\ \E r \in RetrieveOutcomes :
       LET res == local_response_of[message, context, r]
       IN  /\ calls' = calls \o <<"local">>
                             \o (IF res.retrieved THEN <<RetrieveCall(r)>> ELSE <<>>)
           /\ IF res.raised
              THEN /\ pc' = "L102"
                   /\ UNCHANGED <<response_text, words, response_by, word_i>>
              ELSE /\ response_text' = res.text
                   /\ words' = local_words_of[message, context, r]
                   /\ response_by' = "local"
                   /\ word_i' = 1
                   /\ pc' = LoopOrElse(local_words_of[message, context, r],
                                       "L95", "L104")
  /\ UNCHANGED <<message, selected_text, current_page, api, events, context, sources>>
  /\ UNCHANGED notStream

\* YieldCanned without the statement of line 104: the handler ends after the
\* canned chunk
YieldCanned_NoDone ==
  /\ pc = "L102"
  /\ events' = Append(events, Chunk(CannedFallback))
  /\ response_by' = "canned"
  /\ pc' = "end"
  /\ UNCHANGED <<message, selected_text, current_page, api, context, sources,
                 response_text, words, word_i, calls>>
  /\ UNCHANGED notStream

\* line 102: the canned message as one chunk
YieldCanned ==
  /\ pc = "L102"
  /\ events' = Append(events, Chunk(CannedFallback))
  /\ response_by' = "canned"
  /\ pc' = "L104"
  /\ UNCHANGED <<message, selected_text, current_page, api, context, sources,
                 response_text, words, word_i, calls>>
  /\ UNCHANGED notStream

\* the generator returns; the server waits for the next request
StreamClose ==
  /\ pc = "end"
  /\ pc' = "idle" /\ message' = <<>> /\ selected_text' = NoneText
  /\ current_page' = NoneText /\ events' = <<>> /\ context' = <<>>
  /\ sources' = <<>> /\ response_text' = <<>> /\ words' = <<>>
  /\ response_by' = "none"
  /\ word_i' = 0 /\ calls' = <<>>
  /\ api' = [openrouter |-> "unused", gemini |-> "unused"]
  /\ UNCHANGED notStream

\* the steps the event loop takes on a started stream
StreamStep ==
  \/ YieldProcessing
  \/ CheckOffTopic
  \/ Retrieve
  \/ YieldSources
  \/ GenerateLLM
  \/ LocalFallback
  \/ StreamWord
  \/ YieldDone
  \/ HandlerRetrieve
  \/ HandlerYieldSources
  \/ HandlerLocal
  \/ YieldCanned
  \/ StreamClose

Next == StreamStart \/ StreamStep

Spec == Init /\ [][Next]_vars

\* the event loop keeps resuming a started generator
FairSpec == Spec /\ WF_vars(StreamStep)


\* --------------- process_query / MainAgent.handle_request (src/rag_chatbot)

relevance_greetings ==
  {<<"hi">>, <<"hello">>, <<"hey">>, <<"greetings">>, Sp(<<"good", "morning">>),
   Sp(<<"good", "afternoon">>), Sp(<<"good", "evening">>),
   Sp(<<"good", "night">>)}

relevant_keywords ==
  {"robotics", "ai", "humanoid", "locomotion", "manipulation", "perception",
   "learning", "nvidia", "isaac", "gazebo", "ros", "simulation", "ethics",
   "safety", "kinematics", "dynamics", "cognition", "applications", "future",
   "platforms", "chapter", "textbook", "book", "robot", "motion", "control",
   "algorithm", "sensor", "actuator", "navigation", "planning"}

relevant_phrases ==
  {Sp(<<"artificial", "intelligence">>), Sp(<<"physical", "ai">>)}

broader_keywords ==
  {"robot", "machine", "intelligent", "automated", "system", "control",
   "algorithm", "computer", "technology", "engineering", "science", "data",
   "learning", "neural", "sensor", "actuator", "motion"}

\* what the relevance prompt can come back with: the two words asked for,
\* another text, or an exception of the API call
RelevanceReplies == {"RELEVANT", "IRRELEVANT", "UNSURE", "raise"}

\* "RELEVANT" in result: "IRRELEVANT" contains it
SaysRelevant(reply) == reply \in {"RELEVANT", "IRRELEVANT"}

\* LLMService.check_query_relevance(query); reply is what the LLM answers when
\* it is asked
check_query_relevance(query, key, reply) ==
  LET query_lower == Lower(query)
      has_relevant_keywords == HasAny(relevant_keywords, relevant_phrases, query_lower)
      keyword_based == HasAny(broader_keywords, {}, query_lower) \/ has_relevant_keywords
  IN  IF Strip(query_lower) \in relevance_greetings
      THEN [relevant |-> TRUE, asked |-> FALSE]
      ELSE IF has_relevant_keywords THEN [relevant |-> TRUE, asked |-> FALSE]
      ELSE IF key /\ reply # "raise"
      THEN [relevant |-> SaysRelevant(reply), asked |-> TRUE]
      ELSE [relevant |-> keyword_based, asked |-> key]

generation_greetings ==
  {<<"hi">>, <<"hello">>, <<"hey">>, <<"greetings">>, Sp(<<"good", "morning">>),
   Sp(<<"good", "afternoon">>), Sp(<<"good", "evening">>)}

HelloMsg ==
  Sp(<<"Hello!", "I'm", "your", "AI", "assistant", "for", "the", "Physical",
       "AI", "&", "Humanoid", "Robotics", "textbook.", "How", "can", "I", "help",
       "you", "with", "questions", "about", "robotics,", "AI,", "humanoid",
       "robots,", "or", "related", "topics", "from", "the", "textbook?">>)

AgentOffTopicMsg(query) ==
  <<"The", " ", "query", " ", "'">> \o query \o <<"'", " ">>
  \o Sp(<<"appears", "to", "be", "off-topic.", "This", "system", "can", "only",
          "answer", "questions", "related", "to", "Physical", "AI", "&",
          "Humanoid", "Robotics", "based", "on", "the", "book", "content.", "I",
          "cannot", "provide", "answers", "on", "this", "topic.">>)

FallbackLimit == 300

AgentFallbackMsg(prompt, ctx) ==
  Sp(<<"Based", "on", "the", "context", "provided:">>) \o <<" ">>
  \o (IF CharLen(ctx) > FallbackLimit
      THEN TakeChars(ctx, FallbackLimit) \o <<"...">> ELSE ctx)
  \o <<"\n", "\n">> \o Sp(<<"For", "your", "query">>) \o <<" ", "'">> \o prompt
  \o <<"'", ",", " ">>
  \o Sp(<<"please", "refer", "to", "the", "relevant", "chapters", "in", "the",
          "textbook", "for", "detailed", "information.">>)

\* LLMService.generate_response(prompt, context) of src/rag_chatbot: a failed
\* API call falls through to the fallback text
agent_generate_response(prompt, ctx, key, outcome) ==
  IF Strip(Lower(prompt)) \in generation_greetings
  THEN [text |-> HelloMsg, called |-> FALSE]
  ELSE IF key /\ outcome = "ok" THEN [text |-> LLMAnswer, called |-> TRUE]
  ELSE [text |-> AgentFallbackMsg(prompt, ctx), called |-> key]

\* GenerationAgent.handle_request(query_request, context, is_off_topic)
generation_handle_request(query, ctx, is_off_topic, key, outcome) ==
  LET is_greeting == Strip(Lower(query)) \in relevance_greetings
      gen == agent_generate_response(query, IF is_greeting THEN <<>> ELSE ctx,
                                     key, outcome)
  IN  IF is_off_topic /\ ~is_greeting
      THEN [response |-> AgentOffTopicMsg(query), called |-> FALSE,
            is_off_topic |-> TRUE]
      ELSE [response |-> gen.text, called |-> gen.called, is_off_topic |-> FALSE]

AgentApiOutcomes == {"ok", "raise"}

\* a client posts /query
AgentStart ==
  /\ agent_pc = "idle"
  /\ \E q \in Queries : agent_query' = q
  /\ agent_pc' = "L72"
  /\ UNCHANGED <<llm_api_key, is_relevant, retrieval_results, agent_calls, agent_out>>
  /\ UNCHANGED notAgent

\* main_agent.py lines 72-74
AgentCheckRelevance ==
  /\ agent_pc = "L72"
  /\ \E reply \in RelevanceReplies :
       LET r == check_query_relevance(agent_query, llm_api_key, reply)
       IN  /\ is_relevant' = r.relevant
           /\ agent_calls' = agent_calls
                \o (IF r.asked THEN <<"relevance_api">> ELSE <<>>)
           /\ agent_pc' = IF ~r.relevant /\ ~HasWord("off-topic", Lower(agent_query))
                          THEN "L79" ELSE "L83"
  /\ UNCHANGED <<llm_api_key, agent_query, retrieval_results, agent_out>>
  /\ UNCHANGED notAgent

\* main_agent.py lines 78-79: the off-topic response
AgentOffTopic ==
  /\ agent_pc = "L79"
  /\ \E o \in AgentApiOutcomes :
       LET g == generation_handle_request(agent_query, <<>>, TRUE, llm_api_key, o)
       IN  /\ agent_out' = [status |-> "ok", response |-> g.response,
                            is_off_topic |-> g.is_off_topic, detail |-> <<>>]
           /\ agent_calls' = agent_calls
                \o (IF g.called THEN <<"generate_api">> ELSE <<>>)
  /\ agent_pc' = "return"
  /\ UNCHANGED <<llm_api_key, agent_query, is_relevant, retrieval_results>>
  /\ UNCHANGED notAgent

\* main_agent.py lines 82-83, RetrievalAgent.handle_request: get_embedding
\* falls back to a hash vector, QdrantService.search re-raises, and
\* process_query (api_server.py line 61) turns the exception into a 500 whose
\* detail is str(e)
AgentRetrieve ==
  /\ agent_pc = "L83"
  /\ \E r \in RetrieveOutcomes :
       /\ agent_calls' = agent_calls
            \o (IF llm_api_key THEN <<"embedding_api">> ELSE <<>>)
            \o <<IF r.raised THEN "search_failed" ELSE "search">>
       /\ IF r.raised
          THEN /\ agent_out' = [status |-> "http500", response |-> <<>>,
                                is_off_topic |-> FALSE, detail |-> ExcText]
               /\ agent_pc' = "return"
               /\ UNCHANGED retrieval_results
          ELSE /\ retrieval_results' = [i \in 1..Len(r.hits) |-> r.hits[i].text]
               /\ agent_pc' = "L91"
               /\ UNCHANGED agent_out
  /\ UNCHANGED <<llm_api_key, agent_query, is_relevant>>
  /\ UNCHANGED notAgent

NonBlank(t) == Strip(t) # <<>>

\* main_agent.py lines 87-96: the context and the generated response
AgentGenerate ==
  /\ agent_pc = "L91"
  /\ \E o \in AgentApiOutcomes :
       LET context_str == JoinWith(SelectSeq(retrieval_results, NonBlank),
                                   <<"\n", "\n">>)
           g == generation_handle_request(agent_query, context_str, FALSE,
                                          llm_api_key, o)
       IN  /\ agent_out' = [status |-> "ok", response |-> g.response,
                            is_off_topic |-> g.is_off_topic, detail |-> <<>>]
           /\ agent_calls' = agent_calls
                \o (IF g.called THEN <<"generate_api">> ELSE <<>>)
  /\ agent_pc' = "return"
  /\ UNCHANGED <<llm_api_key, agent_query, is_relevant, retrieval_results>>
  /\ UNCHANGED notAgent

\* the response is sent; the server waits for the next request
AgentClose ==
  /\ agent_pc = "return"
  /\ agent_pc' = "idle" /\ agent_query' = <<>> /\ is_relevant' = TRUE
  /\ retrieval_results' = <<>> /\ agent_calls' = <<>> /\ agent_out' = NoOutput
  /\ UNCHANGED llm_api_key
  /\ UNCHANGED notAgent

InitAgent ==
  /\ ToolsIdle
  /\ openrouter_service = NoService
  /\ gemini_service = NoService
  /\ primary_service = "none"
  /\ StreamIdle
  /\ AgentIdle
  /\ llm_api_key \in BOOLEAN

NextAgent ==
  \/ AgentStart
  \/ AgentCheckRelevance
  \/ AgentOffTopic
  \/ AgentRetrieve
  \/ AgentGenerate
  \/ AgentClose

SpecAgent == InitAgent /\ [][NextAgent]_vars

\* ------------------------------------------- RAGService.build_context

MaxHits == 3

RECURSIVE SeqsUpTo(_, _)
SeqsUpTo(S, n) ==
  IF n = 0 THEN {<<>>}
  ELSE SeqsUpTo(S, n - 1) \cup {Append(q, x) : q \in SeqsUpTo(S, n - 1), x \in S}

\* the retrieved chunks build_context is called with
HitPool == {Hit1, Hit2, Hit3, Hit4, Hit5}

\* no request is being served while the function is examined
ServerIdle ==
  /\ openrouter_service = NoService
  /\ gemini_service = NoService
  /\ primary_service = "none"
  /\ StreamIdle
  /\ AgentIdle
  /\ llm_api_key = FALSE

InitContext ==
  /\ ServerIdle
  /\ ChunkIdle
  /\ IngestIdle
  /\ MoreIdle
  /\ bc_pc = "called"
  /\ bc_hits \in SeqsUpTo(HitPool, MaxHits)
  /\ bc_out = NoContext

BuildContext ==
  /\ bc_pc = "called"
  /\ bc_out' = build_context(bc_hits)
  /\ bc_pc' = "returned"
  /\ UNCHANGED <<bc_hits, llmVars, streamVars, agentVars, chunkVars, ingestVars,
                 moreVars>>

NextContext == BuildContext

SpecContext == InitContext /\ [][NextContext]_vars


\* --------------------------------------------- chunker.py: chunk_file
\* Here a text is a sequence of characters.

LetterChars == {"A", "B", "C", "x", "y"}

LineChars == LetterChars \cup {"#", " "}

\* the index after the run of characters of the set cs that starts at q
RECURSIVE RunEnd(_, _, _)
RunEnd(s, q, cs) ==
  IF q <= Len(s) /\ s[q] \in cs THEN RunEnd(s, q + 1, cs) ELSE q

\* the lookahead (?=\n##\s+|\Z) of heading_pattern at index e
heading_lookahead(s, e) ==
  \/ e = Len(s) + 1
  \/ /\ e + 3 <= Len(s)
     /\ s[e] = "\n" /\ s[e + 1] = "#" /\ s[e + 2] = "#" /\ s[e + 3] \in WS

\* heading_pattern matched at index p: the index after the match, 0 without a
\* match.  \s+ takes the whole whitespace run and gives characters back one
\* by one; .*? cannot cross a newline, and the lookahead holds only before a
\* newline or at the end, so .*? always runs to the end of its line.
heading_match(s, p) ==
  IF ~(p + 2 <= Len(s) /\ s[p] = "#" /\ s[p + 1] = "#" /\ s[p + 2] \in WS)
  THEN 0
  ELSE LET ok == {q \in (p + 3)..RunEnd(s, p + 2, WS) :
                    heading_lookahead(s, RunEnd(s, q, LineChars))}
       IN  IF ok = {} THEN 0
           ELSE RunEnd(s, CHOOSE q \in ok : \A r \in ok : r <= q, LineChars)

\* re.split(heading_pattern, content): the text before each match, the
\* captured match, and the rest
RECURSIVE re_split(_, _, _)
re_split(s, last, p) ==
  IF p > Len(s) THEN <<SubSeq(s, last, Len(s))>>
  ELSE IF heading_match(s, p) = 0 THEN re_split(s, last, p + 1)
  ELSE <<SubSeq(s, last, p - 1), SubSeq(s, p, heading_match(s, p) - 1)>>
       \o re_split(s, heading_match(s, p), heading_match(s, p))

\* str.startswith('##')
StartsWithHashes(t) == Len(t) >= 2 /\ t[1] = "#" /\ t[2] = "#"

\* the while loop of lines 48-60
RECURSIVE heading_sections(_, _)
heading_sections(sections, i) ==
  IF i > Len(sections) THEN <<>>
  ELSE IF i + 1 <= Len(sections) /\ StartsWithHashes(Strip(sections[i]))
  THEN <<Strip(sections[i]) \o <<"\n">> \o sections[i + 1]>>
       \o heading_sections(sections, i + 2)
  ELSE (IF Strip(sections[i]) # <<>> /\ ~StartsWithHashes(Strip(sections[i]))
        THEN <<sections[i]>> ELSE <<>>)
       \o heading_sections(sections, i + 1)

split_by_headings(doc) ==
  LET kept == SelectSeq(heading_sections(re_split(doc, 1, 1), 1),
                        LAMBDA c : Strip(c) # <<>>)
  IN  [i \in 1..Len(kept) |-> Strip(kept[i])]

\* The pieces cl100k_base cuts a text of the model's alphabet into, by its
\* pattern  [^\r\n\p{L}\p{N}]?+\p{L}+ | ?[^\s\p{L}\p{N}]++[\r\n]* | \s*[\r\n] |
\* \s+(?!\S) | \s+ : the index after the piece that starts at p.  Each piece
\* is one token.
piece_end(s, p) ==
  IF s[p] \in LetterChars THEN RunEnd(s, p, LetterChars)
  ELSE IF s[p] \in {" ", "#"} /\ p + 1 <= Len(s) /\ s[p + 1] \in LetterChars
  THEN RunEnd(s, p + 1, LetterChars)
  ELSE IF s[p] = "#" \/ (s[p] = " " /\ p + 1 <= Len(s) /\ s[p + 1] = "#")
  THEN RunEnd(s, RunEnd(s, IF s[p] = " " THEN p + 1 ELSE p, {"#"}), {"\n"})
  ELSE LET q  == RunEnd(s, p, WS)
           nl == {k \in p..(q - 1) : s[k] = "\n"}
       IN  IF nl # {} THEN (CHOOSE k \in nl : \A r \in nl : r <= k) + 1
           ELSE IF q = Len(s) + 1 \/ q - p = 1 THEN q
           ELSE q - 1

\* encoding.encode(text)
RECURSIVE encode_from(_, _)
encode_from(s, p) ==
  IF p > Len(s) THEN <<>>
  ELSE <<SubSeq(s, p, piece_end(s, p) - 1)>> \o encode_from(s, piece_end(s, p))

encode(text) == encode_from(text, 1)

\* encoding.decode(tokens)
decode(toks) == JoinWith(toks, <<>>)

count_tokens(text) == Len(encode(text))

\* the index Python's slicing turns k into for a list of n items
PyIndex(n, k) ==
  IF k < 0 THEN (IF k + n < 0 THEN 0 ELSE k + n) ELSE (IF k > n THEN n ELSE k)

\* lines 129-133: end_idx of one window over n tokens
end_idx_Unbounded(start_idx, max_tokens, n) == n

end_idx(start_idx, max_tokens, n) ==
  IF start_idx + max_tokens > n THEN n ELSE start_idx + max_tokens

\* the window tokens[start_idx:end_idx], its text and the positions it covers
Window(toks, a, b) ==
  [text |-> decode(SubSeq(toks, PyIndex(Len(toks), a) + 1, PyIndex(Len(toks), b))),
   from |-> PyIndex(Len(toks), a) + 1,
   to   |-> PyIndex(Len(toks), b)]

\* chunk_file lines 227-236: ids and texts of the chunks that are not blank
chunk_records(stem, final) ==
  LET kept == {k \in 1..Len(final) : Strip(final[k]) # <<>>}
      nth(j) == CHOOSE k \in kept : Cardinality({r \in kept : r < k}) = j - 1
  IN  [j \in 1..Cardinality(kept) |->
         [id |-> <<stem, "_chunk_", nth(j) - 1>>, text |-> final[nth(j)]]]

MaxLines == 3

MaxTokensTried == 3

MaxOverlapTried == 3

\* the chunk list a process can hold before Python raises MemoryError
MemLimit == 12

DocLines ==
  {<<"#", "#", " ", "A">>, <<"#", "#", " ", "B">>, <<"#", "#", "#", " ", "C">>,
   <<"x", " ", "y">>, <<>>}

Documents == {JoinWith(ls, <<"\n">>) : ls \in SeqsUpTo(DocLines, MaxLines)}

file_stem == "lesson"

InitChunker ==
  /\ ServerIdle
  /\ CtxIdle
  /\ IngestIdle
  /\ MoreIdle
  /\ ck_pc = "called"
  /\ ck_doc \in Documents
  /\ ck_max \in 1..MaxTokensTried
  /\ ck_overlap \in 0..MaxOverlapTried
  /\ ck_texts = <<>> /\ ck_i = 0 /\ ck_final = <<>> /\ ck_start = 0
  /\ ck_windows = <<>> /\ ck_result = <<>>

notChunker == <<llmVars, streamVars, agentVars, ctxVars, ingestVars, moreVars>>

\* chunk_file line 222
SplitHeadings ==
  /\ ck_pc = "called"
  /\ ck_texts' = split_by_headings(ck_doc)
  /\ ck_i' = 1
  /\ ck_pc' = "limit"
  /\ UNCHANGED <<ck_doc, ck_max, ck_overlap, ck_final, ck_start, ck_windows,
                 ck_result>>
  /\ UNCHANGED notChunker

\* chunk_with_token_limit, lines 97-104: one text of the loop
LimitText ==
  /\ ck_pc = "limit"
  /\ ck_i <= Len(ck_texts)
  /\ IF count_tokens(ck_texts[ck_i]) <= ck_max
     THEN /\ ck_final' = Append(ck_final, ck_texts[ck_i])
          /\ ck_i' = ck_i + 1
          /\ UNCHANGED <<ck_pc, ck_start, ck_windows>>
     ELSE /\ ck_pc' = "window"
          /\ ck_start' = 0
          /\ ck_windows' = <<>>
          /\ UNCHANGED <<ck_i, ck_final>>
  /\ UNCHANGED <<ck_doc, ck_max, ck_overlap, ck_texts, ck_result>>
  /\ UNCHANGED notChunker

\* split_large_text, lines 127-147: one pass of the while loop; a chunk list
\* that outgrows the memory ends chunk_file with MemoryError
SplitWindow ==
  /\ ck_pc = "window"
  /\ LET toks == encode(ck_texts[ck_i])
         e    == end_idx(ck_start, ck_max, Len(toks))
         ws   == Append(ck_windows, Window(toks, ck_start, e))
         done == /\ ck_final' = ck_final \o [k \in 1..Len(ws) |-> ws[k].text]
                 /\ ck_i' = ck_i + 1
                 /\ ck_pc' = "limit"
     IN  IF ~(ck_start < Len(toks))
         THEN /\ ck_final' = ck_final \o [k \in 1..Len(ck_windows) |-> ck_windows[k].text]
              /\ ck_i' = ck_i + 1
              /\ ck_pc' = "limit"
              /\ UNCHANGED <<ck_start, ck_windows>>
         ELSE IF Len(ck_windows) >= MemLimit
         THEN /\ ck_pc' = "raised"
              /\ UNCHANGED <<ck_i, ck_final, ck_start, ck_windows>>
         ELSE /\ ck_windows' = ws
              /\ IF ck_start + ck_max < Len(toks)
                 THEN /\ ck_start' = e - ck_overlap
                      /\ UNCHANGED <<ck_pc, ck_i, ck_final>>
                 ELSE /\ done
                      /\ UNCHANGED ck_start
  /\ UNCHANGED <<ck_doc, ck_max, ck_overlap, ck_texts, ck_result>>
  /\ UNCHANGED notChunker

\* chunk_file lines 227-238
ChunkFileReturn ==
  /\ ck_pc = "limit"
  /\ ck_i > Len(ck_texts)
  /\ ck_result' = chunk_records(file_stem, ck_final)
  /\ ck_pc' = "returned"
  /\ UNCHANGED <<ck_doc, ck_max, ck_overlap, ck_texts, ck_i, ck_final, ck_start,
                 ck_windows>>
  /\ UNCHANGED notChunker

NextChunker == SplitHeadings \/ LimitText \/ SplitWindow \/ ChunkFileReturn

SpecChunker == InitChunker /\ [][NextChunker]_vars


\* ------------------- ingestion: index_content.py and content_ingestion.py

\* chunk_multiple_files as index_content calls it: the defaults of line 241
DefaultMaxTokens == 1000

DefaultOverlapTokens == 100

\* the defaults of _chunk_text
ChunkTextMaxTokens == 800

ChunkTextOverlap == 200

\* split_large_text for an overlap below max_tokens, where its loop ends
RECURSIVE split_large_text(_, _, _, _)
split_large_text(toks, start_idx, max_tokens, overlap_tokens) ==
  IF ~(start_idx < Len(toks)) THEN <<>>
  ELSE <<Window(toks, start_idx, end_idx(start_idx, max_tokens, Len(toks))).text>>
       \o (IF start_idx + max_tokens < Len(toks)
           THEN split_large_text(toks,
                  end_idx(start_idx, max_tokens, Len(toks)) - overlap_tokens,
                  max_tokens, overlap_tokens)
           ELSE <<>>)

RECURSIVE chunk_with_token_limit(_, _, _)
chunk_with_token_limit(texts, max_tokens, overlap_tokens) ==
  IF Len(texts) = 0 THEN <<>>
  ELSE (IF count_tokens(texts[1]) <= max_tokens THEN <<texts[1]>>
        ELSE split_large_text(encode(texts[1]), 0, max_tokens, overlap_tokens))
       \o chunk_with_token_limit(Tail(texts), max_tokens, overlap_tokens)

\* Path(file_path).stem: the file name without its directories and suffix
PathStem(path) ==
  CASE path = "docs/broken.md"           -> "broken"
    [] path = "docs/empty.md"            -> "empty"
    [] path = "docs/chapter-01/intro.md" -> "intro"
    [] path = "docs/chapter-02/intro.md" -> "intro"
    [] path = "docs/chapter.md"          -> "chapter"

chunk_file(file, max_tokens, overlap_tokens) ==
  chunk_records(PathStem(file.path),
    chunk_with_token_limit(split_by_headings(file.content), max_tokens,
                           overlap_tokens))

MaxFiles == 2

\* a file open() or read() fails on
Unreadable == [path |-> "docs/broken.md", readable |-> FALSE, content |-> <<>>]

SourceFiles ==
  {Unreadable,
   [path |-> "docs/empty.md", readable |-> TRUE, content |-> <<>>],
   [path |-> "docs/chapter-01/intro.md", readable |-> TRUE,
    content |-> <<"x", " ", "y">>],
   [path |-> "docs/chapter-02/intro.md", readable |-> TRUE, content |-> <<"y">>],
   [path |-> "docs/chapter.md", readable |-> TRUE,
    content |-> <<"#", "#", " ", "A", "\n", "#", "#", " ", "B">>]}

\* the id of a point: enumerate's index in index_content, uuid4 in
\* ingest_document
index_point_id_PerRun(i) == <<"int", 100 * in_run + i - 1>>

index_point_id(i) == <<"int", i - 1>>

\* client.upsert: a point replaces the stored point of the same id
Upsert(stored, new) ==
  {pt \in stored : \A q \in new : q.id # pt.id} \cup new

InitIngest ==
  /\ ServerIdle
  /\ CtxIdle
  /\ ChunkIdle
  /\ MoreIdle
  /\ in_path \in {"index_content", "bulk_ingest"}
  /\ in_docs \in SeqsUpTo(SourceFiles, MaxFiles)
  /\ in_path = "bulk_ingest" => \A k \in 1..Len(in_docs) : in_docs[k].readable
  /\ in_path = "index_content"
     => \A j, k \in 1..Len(in_docs) : in_docs[j].path = in_docs[k].path => j = k
  /\ in_key \in BOOLEAN
  /\ in_pc = "start"
  /\ in_run = 1
  /\ in_k = 1
  /\ in_attempts = [k \in 1..Len(in_docs) |-> 0]
  /\ in_chunks = <<>> /\ in_start = 0 /\ in_results = NoResults
  /\ in_ready = "unset" /\ in_points = {} /\ in_uuids = 0
  /\ in_first = NoSnapshot

notIngest == <<llmVars, streamVars, agentVars, ctxVars, chunkVars, moreVars>>

\* chunk_multiple_files lines 255-257 under index_content line 98: one file of
\* the loop; what chunk_file raises leaves both functions
IndexChunkFile ==
  /\ in_path = "index_content" /\ in_pc = "start"
  /\ in_k <= Len(in_docs)
  /\ in_attempts' = [in_attempts EXCEPT ![in_k] = @ + 1]
  /\ IF in_docs[in_k].readable
     THEN /\ in_chunks' = in_chunks
                \o chunk_file(in_docs[in_k], DefaultMaxTokens, DefaultOverlapTokens)
          /\ in_k' = in_k + 1
          /\ UNCHANGED in_pc
     ELSE /\ in_pc' = "aborted"
          /\ UNCHANGED <<in_chunks, in_k>>
  /\ UNCHANGED <<in_path, in_docs, in_key, in_run, in_start, in_results,
                 in_ready, in_points, in_uuids, in_first>>
  /\ UNCHANGED notIngest

\* index_content lines 101-132: embed_texts, the points, client.upsert
IndexUpsert ==
  /\ in_path = "index_content" /\ in_pc = "start"
  /\ in_k > Len(in_docs)
  /\ IF in_chunks = <<>>
     THEN in_pc' = "done" /\ UNCHANGED in_points
     ELSE \E embedded, upserted \in BOOLEAN :
            IF embedded /\ upserted
            THEN /\ in_points' = Upsert(in_points,
                       {[id |-> index_point_id(i), text |-> in_chunks[i].text,
                         vector |-> "embedding"] : i \in 1..Len(in_chunks)})
                 /\ in_pc' = "done"
            ELSE in_pc' = "aborted" /\ UNCHANGED in_points
  /\ UNCHANGED <<in_path, in_docs, in_key, in_run, in_k, in_attempts, in_chunks,
                 in_start, in_results, in_ready, in_uuids, in_first>>
  /\ UNCHANGED notIngest

\* initialize_rag_system lines 38-48 on the result of bulk_ingest
initialize_rag_system(result) == result.errors = <<>>

\* bulk_ingest lines 176-195: the next document goes to ingest_document, or
\* the results are returned
BulkNextDocument ==
  /\ in_path = "bulk_ingest" /\ in_pc = "start"
  /\ IF in_k <= Len(in_docs)
     THEN /\ in_attempts' = [in_attempts EXCEPT ![in_k] = @ + 1]
          /\ in_chunks' = <<>>
          /\ in_start' = 0
          /\ in_pc' = "chunking"
          /\ UNCHANGED in_ready
     ELSE /\ in_ready' = initialize_rag_system(in_results)
          /\ in_pc' = "returned"
          /\ UNCHANGED <<in_attempts, in_chunks, in_start>>
  /\ UNCHANGED <<in_path, in_docs, in_key, in_run, in_k, in_results, in_points,
                 in_uuids, in_first>>
  /\ UNCHANGED notIngest

\* _chunk_text lines 47-63: one pass of the while loop.  A chunk list that
\* outgrows the memory raises MemoryError, which ingest_document catches
\* (lines 162-164), or gets the process killed.
ChunkTextStep ==
  /\ in_path = "bulk_ingest" /\ in_pc = "chunking"
  /\ LET toks == encode(in_docs[in_k].content)
         e    == end_idx(in_start, ChunkTextMaxTokens, Len(toks))
     IN  IF ~(in_start < Len(toks))
         THEN /\ in_pc' = "embedding"
              /\ UNCHANGED <<in_chunks, in_start, in_results, in_k>>
         ELSE IF Len(in_chunks) >= MemLimit
         THEN \/ /\ in_results' = [in_results EXCEPT !.failed = @ + 1]
                 /\ in_k' = in_k + 1
                 /\ in_pc' = "start"
                 /\ UNCHANGED <<in_chunks, in_start>>
              \/ /\ in_pc' = "killed"
                 /\ UNCHANGED <<in_chunks, in_start, in_results, in_k>>
         ELSE /\ in_chunks' = Append(in_chunks, Window(toks, in_start, e).text)
              /\ in_start' = IF e - ChunkTextOverlap >= e THEN e
                             ELSE e - ChunkTextOverlap
              /\ UNCHANGED <<in_pc, in_results, in_k>>
  /\ UNCHANGED <<in_path, in_docs, in_key, in_run, in_attempts, in_ready,
                 in_points, in_uuids, in_first>>
  /\ UNCHANGED notIngest

\* _get_embeddings: zero vectors stand in for the embeddings when the key is
\* not set (lines 71-78) and when the API call raises (lines 102-109); the
\* API is called once per batch of texts, so not at all without a text
_get_embeddings(texts, key, api_ok) ==
  [i \in 1..Len(texts) |-> IF key /\ api_ok THEN "embedding" ELSE "placeholder"]

\* ingest_document lines 129-164: embeddings, points with uuid4 ids, upsert
EmbedAndUpsert ==
  /\ in_path = "bulk_ingest" /\ in_pc = "embedding"
  /\ \E api_ok, upserted \in BOOLEAN :
       LET vectors == _get_embeddings(in_chunks, in_key, api_ok)
       IN  /\ in_uuids' = in_uuids + Len(in_chunks)
           /\ IF upserted
              THEN /\ in_points' = Upsert(in_points,
                         {[id |-> <<"uuid", in_uuids + i>>, text |-> in_chunks[i],
                           vector |-> vectors[i]] : i \in 1..Len(in_chunks)})
                   /\ in_results' = [in_results EXCEPT !.successful = @ + 1]
              ELSE /\ in_results' = [in_results EXCEPT !.failed = @ + 1]
                   /\ UNCHANGED in_points
  /\ in_k' = in_k + 1
  /\ in_pc' = "start"
  /\ UNCHANGED <<in_path, in_docs, in_key, in_run, in_attempts, in_chunks,
                 in_start, in_ready, in_first>>
  /\ UNCHANGED notIngest

\* the same files are ingested a second time
IngestAgain ==
  /\ in_pc \in {"done", "aborted", "returned"}
  /\ in_run = 1
  /\ in_first' = [complete |-> in_pc # "aborted", points |-> in_points]
  /\ in_run' = 2
  /\ in_pc' = "start"
  /\ in_k' = 1
  /\ in_attempts' = [k \in 1..Len(in_docs) |-> 0]
  /\ in_chunks' = <<>>
  /\ in_start' = 0
  /\ in_results' = NoResults
  /\ in_ready' = "unset"
  /\ UNCHANGED <<in_path, in_docs, in_key, in_points, in_uuids>>
  /\ UNCHANGED notIngest

NextIngest ==
  \/ IndexChunkFile
  \/ IndexUpsert
  \/ BulkNextDocument
  \/ ChunkTextStep
  \/ EmbedAndUpsert
  \/ IngestAgain

SpecIngest == InitIngest /\ [][NextIngest]_vars


\* ------------------- LocalResponseService.generate_response on its own

MaxSentences == 4

\* the sentences a context is made of
SentencePool ==
  {<<"The", " ", "weather", " ", "is", " ", "nice">>,
   <<"Robots", " ", "keep", " ", "balance">>,
   <<"Balance", " ", "control", " ", "uses", " ", "sensors">>,
   <<"sensors">>,
   <<"robot">>}

\* each sentence is closed by a full stop and followed by a space
RECURSIVE ContextOf(_)
ContextOf(ss) ==
  IF Len(ss) = 0 THEN <<>> ELSE ss[1] \o <<".", " ">> \o ContextOf(Tail(ss))

LocalPrompts ==
  {<<"explain", " ", "robot", " ", "balance">>,
   <<"robot", " ", "balance", " ", "sensors", " ", "control">>,
   <<"what", " ", "is", " ", "this">>}

InitLocal ==
  /\ ServerIdle
  /\ CtxIdle
  /\ ChunkIdle
  /\ IngestIdle
  /\ ColIdle
  /\ GenIdle
  /\ ChatIdle
  /\ lr_pc = "called"
  /\ lr_prompt \in LocalPrompts
  /\ \E ss \in SeqsUpTo(SentencePool, MaxSentences) : lr_context = ContextOf(ss)
  /\ lr_out = NoAnswer

notLocal ==
  <<llmVars, streamVars, agentVars, ctxVars, chunkVars, ingestVars, colVars,
    genVars, chatVars>>

\* generate_response lines 19-57
LocalGenerate ==
  /\ lr_pc = "called"
  /\ \E r \in RetrieveOutcomes :
       lr_out' = local_generate_response(lr_prompt, lr_context, r)
  /\ lr_pc' = "returned"
  /\ UNCHANGED <<lr_prompt, lr_context, notLocal>>

NextLocal == LocalGenerate

SpecLocal == InitLocal /\ [][NextLocal]_vars


\* ------------------------- the Qdrant collection textbook_content
\* index_content, ContentIngestionService and both RAGService classes name the
\* same collection by default (index_content.py line 63, content_ingestion.py
\* line 16, backend config.py line 14, rag.py line 18).

MaxRequests == 4

\* VectorParams(size=384) of index_content and the BAAI/bge-small-en-v1.5
\* vectors of embed_texts and embed_text
IndexSize == 384

\* VectorParams(size=1536) of ContentIngestionService._initialize_collection
IngestionSize == 1536

\* the query vector of the backend RAGService._get_query_embedding: Cohere
\* embed-english-v3.0, the md5 fallback and the zero vector alike
QuerySize == 1024

\* one vector sent to the collection and the size the collection had then
VectorSent(op, size) == [op |-> op, size |-> size, collection |-> col_size]

InitCollection ==
  /\ ServerIdle
  /\ CtxIdle
  /\ ChunkIdle
  /\ IngestIdle
  /\ LocalIdle
  /\ GenIdle
  /\ ChatIdle
  /\ ColIdle

notCollection ==
  <<llmVars, streamVars, agentVars, ctxVars, chunkVars, ingestVars, localVars,
    genVars, chatVars>>

\* index_content lines 75-88: create the collection unless get_collection
\* finds it
IndexEnsureCollection ==
  /\ index_pc = "idle"
  /\ col_size' = IF col_size = 0 THEN IndexSize ELSE col_size
  /\ index_pc' = "ensured"
  /\ UNCHANGED <<col_log, ingestion_pc, notCollection>>

\* index_content lines 101-132: the points carry the vectors of embed_texts
IndexUpsertVectors ==
  /\ index_pc = "ensured"
  /\ Len(col_log) < MaxRequests
  /\ col_log' = Append(col_log, VectorSent("upsert", IndexSize))
  /\ index_pc' = "done"
  /\ UNCHANGED <<col_size, ingestion_pc, notCollection>>

\* the script is run again
IndexRunAgain ==
  /\ index_pc = "done"
  /\ index_pc' = "idle"
  /\ UNCHANGED <<col_size, col_log, ingestion_pc, notCollection>>

\* ContentIngestionService.__init__ lines 12-20 with _initialize_collection
IngestionInit ==
  /\ ingestion_pc = "absent"
  /\ col_size' = IF col_size = 0 THEN IngestionSize ELSE col_size
  /\ ingestion_pc' = "constructed"
  /\ UNCHANGED <<col_log, index_pc, notCollection>>

\* ingest_document lines 129-158: _chunk_text returns for the empty content
\* only (see ChunkTextStep), so the list of points that reaches client.upsert
\* holds no vector
IngestionUpsert ==
  /\ ingestion_pc = "constructed"
  /\ ingestion_pc' = "ingested"
  /\ UNCHANGED <<col_size, col_log, index_pc, notCollection>>

\* rag.py retrieve lines 40-47: embed_text and client.search
ApiRetrieve ==
  /\ Len(col_log) < MaxRequests
  /\ col_log' = Append(col_log, VectorSent("search", IndexSize))
  /\ UNCHANGED <<col_size, index_pc, ingestion_pc, notCollection>>

\* backend rag_service.py retrieve_relevant_chunks lines 92-100
BackendRetrieve ==
  /\ Len(col_log) < MaxRequests
  /\ col_log' = Append(col_log, VectorSent("backend_search", QuerySize))
  /\ UNCHANGED <<col_size, index_pc, ingestion_pc, notCollection>>

NextCollection ==
  \/ IndexEnsureCollection
  \/ IndexUpsertVectors
  \/ IndexRunAgain
  \/ IngestionInit
  \/ IngestionUpsert
  \/ ApiRetrieve
  \/ BackendRetrieve

SpecCollection == InitCollection /\ [][NextCollection]_vars


\* ----------------------- LLMService.generate_streaming_response

MaxDeltas == 2

\* the delta contents of the chunks of a streamed completion; the empty one is
\* a chunk without content
DeltaPool == {<<>>, <<"Robots">>, <<" ", "balance">>}

\* the streams the provider's API can deliver: the deltas, and whether the
\* call or the iteration raises after so many of them
ApiStreams ==
  {[deltas |-> d, raises |-> x, after |-> n] :
     d \in SeqsUpTo(DeltaPool, MaxDeltas), x \in BOOLEAN, n \in 0..MaxDeltas}

\* OpenRouterService.generate_streaming_response and
\* GeminiService.generate_streaming_response: the fragments the generator
\* yields when it is iterated
provider_generate_streaming_response(svc, stream) ==
  LET got == IF stream.raises
             THEN SubSeq(stream.deltas, 1, stream.after) ELSE stream.deltas
  IN  IF ~svc.client THEN <<MsgNotAvailable>>
      ELSE SelectSeq(got, LAMBDA d : d # <<>>)
           \o (IF stream.raises THEN <<MsgError>> ELSE <<>>)

\* LLMService.generate_streaming_response lines 54-70.  The body holds a
\* yield, so the method is a generator function: the return statements of
\* lines 60-67 end the iteration and hand the provider's generator over as the
\* value of StopIteration, and nothing iterates that generator.  Calling a
\* provider's generator function runs none of its body, so the except branch
\* is never entered.
llm_generate_streaming_response(primary) ==
  IF primary # "none"
  THEN [yielded |-> <<>>, returned |-> "provider_generator"]
  ELSE [yielded |-> <<MsgNotAvailableNow>>, returned |-> "none"]

InitGen ==
  /\ \E orKey, gemKey, orOk, gemOk \in BOOLEAN :
       /\ openrouter_service = init_openrouter_service(orKey, orOk)
       /\ gemini_service = init_gemini_service(gemKey, gemOk)
       /\ primary_service = init_primary_service(orKey, gemKey)
  /\ StreamIdle
  /\ AgentIdle
  /\ llm_api_key = FALSE
  /\ CtxIdle
  /\ ChunkIdle
  /\ IngestIdle
  /\ LocalIdle
  /\ ColIdle
  /\ ChatIdle
  /\ gs_pc = "called"
  /\ gs_api \in ApiStreams
  /\ gs_api.raises => gs_api.after <= Len(gs_api.deltas)
  /\ ~gs_api.raises => gs_api.after = 0
  /\ gs_out = <<>>
  /\ gs_returned = "none"

notGen ==
  <<llmVars, streamVars, agentVars, ctxVars, chunkVars, ingestVars, localVars,
    colVars, chatVars>>

\* the consumer iterates the generator until it is exhausted
IterateStream ==
  /\ gs_pc = "called"
  /\ gs_out' = llm_generate_streaming_response(primary_service).yielded
  /\ gs_returned' = llm_generate_streaming_response(primary_service).returned
  /\ gs_pc' = "exhausted"
  /\ UNCHANGED <<gs_api, notGen>>

NextGen == IterateStream

SpecGen == InitGen /\ [][NextGen]_vars


\* ------------------------------ working_rag_chatbot.py: POST /chat

MaxChats == 2

\* ChatRequest.query
ChatQueries == {<<"Hello">>, <<"pizza">>, <<"robot">>, <<" ">>}

\* ChatRequest.session_id; "" stands for None and for the empty string
GivenSessions == {"", "s1", "s2"}

\* str(uuid.uuid4()): the n-th id handed out
uuid4(n) ==
  CASE n = 1 -> "uuid-1"
    [] n = 2 -> "uuid-2"
    [] n = 3 -> "uuid-3"
    [] OTHER -> "uuid-4"

chat_greetings ==
  {<<"hi">>, <<"hello">>, <<"hey">>, <<"greetings">>, Sp(<<"good", "morning">>),
   Sp(<<"good", "afternoon">>), Sp(<<"good", "evening">>),
   Sp(<<"good", "night">>), <<"bye">>}

simple_responses ==
  {<<"yes">>, <<"no">>, <<"maybe">>, <<"ok">>, <<"okay">>, <<"sure">>,
   <<"thanks">>, Sp(<<"thank", "you">>), <<"please">>}

\* the words that open a text matched by one of the greeting_patterns
greeting_openers ==
  {Sp(<<"good", "morning">>), Sp(<<"good", "afternoon">>),
   Sp(<<"good", "evening">>), Sp(<<"good", "night">>), Sp(<<"whats", "up">>),
   Sp(<<"how", "are", "you">>), <<"howdy">>, Sp(<<"long", "time", "no", "see">>),
   Sp(<<"nice", "to", "meet", "you">>)}

question_words ==
  {"what", "how", "why", "when", "where", "who", "which", "explain",
   "describe", "chapter", "robot", "ai", "humanoid", "physical", "book",
   "topic", "section", "robotics", "learning", "system", "control", "motion",
   "design"}

\* is_greeting_or_off_topic lines 67-101
is_greeting_or_off_topic(query) ==
  LET query_lower == Lower(Strip(query))
  IN  \/ query_lower \in chat_greetings \cup simple_responses
      \/ \E opener \in greeting_openers :
           Len(opener) <= Len(query_lower)
           /\ SubSeq(query_lower, 1, Len(opener)) = opener
      \/ /\ Len(Split(query)) <= 2
         /\ ~\E word \in question_words : HasWord(word, query_lower)

HelloReply ==
  Sp(<<"Hello!", "Ask", "about", "the", "Physical", "AI", "Humanoid",
       "Robotics", "book.">>)

GotItReply ==
  Sp(<<"Got", "it!", "Feel", "free", "to", "ask", "questions", "about", "the",
       "Physical", "AI", "Humanoid", "Robotics", "book.">>)

NoInfoReply ==
  Sp(<<"No", "relevant", "information", "found", "in", "the", "book", "to",
       "answer", "your", "question.">>)

\* response.choices[0].message.content is None
NoneContent == <<"<None>">>

\* what the Cohere, Qdrant and OpenRouter calls of one request do: the search
\* finds chunks, finds none, or a call raises; the completion has content,
\* has none, raises a token limit error or another error; so does the retry
\* with the reduced context, which has no handler of its own
ChatOutcomes ==
  [search : {"hits", "none", "raise"},
   llm    : {"text", "null", "token_error", "error"},
   retry  : {"text", "null", "error"}]

\* a session id every request is made to use
resolve_session_id_Shared(given, fresh) == "s1"

\* line 111: request.session_id or str(uuid.uuid4())
resolve_session_id(given, fresh) == IF given # "" THEN given ELSE fresh

\* lines 114-115
with_session(store, session_id) ==
  [k \in DOMAIN store \cup {session_id} |->
     IF k \in DOMAIN store THEN store[k] ELSE <<>>]

\* the two appends of lines 120-136 and of lines 263-272
append_turn(store, session_id, query, reply) ==
  [store EXCEPT ![session_id] =
     @ \o <<[role |-> "user", content |-> query],
            [role |-> "assistant", content |-> reply]>>]

\* lines 220-260: llm_response, or that the exception left the try block
llm_response_of(ext) ==
  IF ext.llm = "text" THEN [raised |-> FALSE, text |-> LLMAnswer]
  ELSE IF ext.llm = "null" THEN [raised |-> FALSE, text |-> NoneContent]
  ELSE IF ext.llm = "error" THEN [raised |-> TRUE, text |-> <<>>]
  ELSE IF ext.search # "hits" THEN [raised |-> FALSE, text |-> NoInfoReply]
  ELSE IF ext.retry = "text" THEN [raised |-> FALSE, text |-> LLMAnswer]
  ELSE IF ext.retry = "null" THEN [raised |-> FALSE, text |-> NoneContent]
  ELSE [raised |-> TRUE, text |-> <<>>]

\* chat lines 104-282 for one request: the store it leaves, the HTTP status,
\* the keys of conversation_store it read or wrote, how many messages it
\* appended and whether it drew a uuid
chat(store, request, fresh, ext) ==
  LET query      == Strip(request.query)
      session_id == resolve_session_id(request.session_id, fresh)
      store1     == with_session(store, session_id)
      reply      == IF Lower(query) \in {<<"hi">>, <<"hello">>, <<"hey">>,
                                          <<"greetings">>}
                    THEN HelloReply ELSE GotItReply
      llm        == llm_response_of(ext)
      drew       == request.session_id = ""
  IN  IF query = <<>>
      THEN [store |-> store, status |-> 400, touched |-> {}, appended |-> 0,
            drew |-> FALSE]
      ELSE IF is_greeting_or_off_topic(query)
      THEN [store |-> append_turn(store1, session_id, query, reply),
            status |-> 200, touched |-> {session_id}, appended |-> 2,
            drew |-> drew]
      ELSE IF ext.search = "raise" \/ llm.raised
      THEN [store |-> store1, status |-> 500, touched |-> {session_id},
            appended |-> 0, drew |-> drew]
      ELSE [store |-> append_turn(store1, session_id, query, llm.text),
            status |-> IF llm.text = NoneContent THEN 500 ELSE 200,
            touched |-> {session_id}, appended |-> 2, drew |-> drew]

InitChat ==
  /\ ServerIdle
  /\ CtxIdle
  /\ ChunkIdle
  /\ IngestIdle
  /\ LocalIdle
  /\ ColIdle
  /\ GenIdle
  /\ ChatIdle

notChat ==
  <<llmVars, streamVars, agentVars, ctxVars, chunkVars, ingestVars, localVars,
    colVars, genVars>>

\* a client posts a request
ChatArrive ==
  /\ chat_arrived < MaxChats
  /\ \E q \in ChatQueries, given \in GivenSessions :
       chat_pending' = chat_pending \cup
         {[id |-> chat_arrived + 1, query |-> q, session_id |-> given]}
  /\ chat_arrived' = chat_arrived + 1
  /\ UNCHANGED <<conversation_store, chat_done, uuids_issued, notChat>>

\* The event loop runs the handler of one request in flight.  The coroutine
\* holds no await, so it runs from line 105 to its return or raise without
\* another handler in between; which request runs first is open.
ChatHandle ==
  /\ \E request \in chat_pending, ext \in ChatOutcomes :
       LET fresh == uuid4(uuids_issued + 1)
           r == chat(conversation_store, request, fresh, ext)
       IN  /\ conversation_store' = r.store
           /\ chat_pending' = chat_pending \ {request}
           /\ chat_done' = Append(chat_done,
                 [id |-> request.id, session_id |-> request.session_id,
                  fresh |-> fresh, status |-> r.status, touched |-> r.touched,
                  appended |-> r.appended])
           /\ uuids_issued' = uuids_issued + (IF r.drew THEN 1 ELSE 0)
  /\ UNCHANGED <<chat_arrived, notChat>>

NextChat == ChatArrive \/ ChatHandle

SpecChat == InitChat /\ [][NextChat]_vars


\* ------------------------------------------------------------ properties

InLog(c, log) == \E i \in 1..Len(log) : log[i] = c

Other(n) == IF n = "openrouter" THEN "gemini" ELSE "openrouter"

Service(n) == IF n = "openrouter" THEN openrouter_service ELSE gemini_service

\* the request reached LLMService.generate_response
GenerationAttempted == InLog("llm_service", calls)

\* no call of retrieve raised during the request
RetrievalWorked == ~InLog("retrieve_failed", calls)

\* the primary provider's API call was made and raised
PrimaryApiRaised ==
  /\ primary_service # "none"
  /\ InLog(primary_service, calls)
  /\ api[primary_service] = "raise"

\* C1: for a request that is not off-topic, when the API call of the primary
\* provider raises and that of the secondary provider raises, the request
\* still ends with a non-empty response text that the local extractive
\* responder produced, whatever the retrieval calls did.
C1_FallbackChainEndsLocal ==
  (/\ pc = "end"
   /\ check_off_topic_query(message) = NoneText
   /\ PrimaryApiRaised
   /\ api[Other(primary_service)] = "raise")
  => (response_by = "local" /\ Split(response_text) # <<>>)

\* C2: in a request whose index calls all succeed and in which no provider
\* answers (none configured, the primary's client not initialised, or the
\* primary's API call raising), the text sent to the user is the local
\* responder's output, never a provider-side message.
C2_NoProviderMeansLocal ==
  (/\ pc = "end"
   /\ GenerationAttempted
   /\ RetrievalWorked
   /\ \/ primary_service = "none"
      \/ ~Service(primary_service).client
      \/ api[primary_service] = "raise")
  => response_by = "local"

\* C3: when the primary provider returns an error-signature text without
\* raising and a secondary provider is configured, every use of the local
\* fallback comes after a call of the secondary provider.
C3_SecondaryBeforeLocal ==
  (/\ PrimaryApiRaised
   /\ Service(Other(primary_service)).client)
  => \A j \in 1..Len(calls) :
       calls[j] = "local"
       => \E i \in 1..(j - 1) : calls[i] = Other(primary_service)

\* C4: when exactly one of the two providers failed to initialise its client
\* and the other is configured and its API works, a request that reaches
\* generation (and whose index calls succeed) is answered by the working
\* provider.
C4_SingleProviderAbsent ==
  (/\ pc = "end"
   /\ GenerationAttempted
   /\ RetrievalWorked
   /\ \E n \in {"openrouter", "gemini"} :
        /\ Service(n).present /\ ~Service(n).client
        /\ Service(Other(n)).client /\ api[Other(n)] = "ok")
  => (response_by = "llm" /\ response_text = LLMAnswer)

\* C5: whatever call fails, no text returned to the client (response body or
\* error detail) contains the raw exception message.
C5_NoRawExceptionText ==
  /\ ~Infix(ExcText, agent_out.response)
  /\ ~Infix(ExcText, agent_out.detail)

\* C6: when check_query_relevance returns False, handle_request answers with
\* the off-topic reply and makes neither a search nor a generation call.
C6_OffTopicSkipsPipeline ==
  (agent_pc = "return" /\ ~is_relevant)
  => /\ agent_out.status = "ok"
     /\ agent_out.response = AgentOffTopicMsg(agent_query)
     /\ ~InLog("search", agent_calls) /\ ~InLog("search_failed", agent_calls)
     /\ ~InLog("generate_api", agent_calls)

\* check_off_topic_query recognises the message as a greeting (line 134)
GreetingRecognised(m) ==
  /\ ~HasAny(off_topic_keywords, {}, Lower(m))
  /\ HasAny(general_keywords, general_phrases, Lower(m))

\* C7: a request whose query is recognised as a greeting ends without any
\* retrieval call.
C7_GreetingWithoutRetrieval ==
  (pc = "end" /\ GreetingRecognised(message))
  => (~InLog("retrieve", calls) /\ ~InLog("retrieve_failed", calls))

\* C8: a query that matches the greeting set is never classified off-topic,
\* whatever off-topic keywords it also contains.
C8_GreetingBeatsOffTopic ==
  (/\ pc \notin {"idle", "L28", "L31"}
   /\ HasAny(general_keywords, general_phrases, Lower(message)))
  => response_by # "off_topic"

\* the data of the chunk events of the stream, in order
ChunkData ==
  LET chunks == SelectSeq(events, LAMBDA e : e.event = "chunk")
  IN  [i \in 1..Len(chunks) |-> chunks[i].data]

\* C9: the chunk events of a finished stream carry the words of the response
\* text, one word each, in text order, the first without and every later one
\* with one leading space.
C9_OneWordPerChunk ==
  pc = "end"
  => ChunkData = [i \in 1..Len(Split(response_text)) |->
                    IF i = 1 THEN Split(response_text)[i]
                    ELSE " " \o Split(response_text)[i]]

DoneCount == Cardinality({i \in 1..Len(events) : events[i].event = "done"})

\* C10: every stream, on the normal path and on every error path, eventually
\* emits the done event, emits it only once, and emits nothing after it.
C10_DoneOnceAndLast ==
  /\ [](/\ DoneCount <= 1
        /\ (DoneCount = 1 => events[Len(events)].event = "done"))
  /\ ((pc = "L28") ~> (DoneCount = 1))

\* a stream that went through both exception handlers has emitted done
C10_Witness ==
  pc = "end" /\ response_by = "canned" /\ DoneCount = 1

\* the (title, url) pair of the k-th retrieved chunk
PairOf(k) == source_info(bc_hits[k])

\* the position of the first retrieved chunk with the pair p
FirstHit(p) == CHOOSE k \in 1..Len(bc_hits) :
                 PairOf(k) = p /\ \A j \in 1..(k - 1) : PairOf(j) # p

\* C11: the sources build_context returns hold each (title, url) pair at most
\* once, hold exactly the pairs that occur in the hits, and list them in the
\* order of their first occurrence.
C11_SourcesDeduplicated ==
  bc_pc = "returned"
  => LET out == bc_out.sources
     IN  /\ \A i, j \in 1..Len(out) : out[i] = out[j] => i = j
         /\ {out[i] : i \in 1..Len(out)} = {PairOf(k) : k \in 1..Len(bc_hits)}
         /\ \A i, j \in 1..Len(out) : i < j => FirstHit(out[i]) < FirstHit(out[j])

\* three hits, the first and the last of one section, gave two sources
C11_Witness ==
  /\ bc_pc = "returned"
  /\ Len(bc_hits) = 3
  /\ PairOf(1) = PairOf(3) /\ PairOf(1) # PairOf(2)
  /\ Len(bc_out.sources) = 2

\* C12: when the search of the vector index fails, retrieve returns an empty
\* hit list: the step of chat_stream that called it goes on to the sources
\* event with an empty context and no source, as for a search without a hit.
C12_IndexFailureGivesNoHits ==
  [][(pc = "L39" /\ calls' = Append(calls, "retrieve_failed"))
       => (pc' = "L45" /\ context' = <<>> /\ sources' = <<>>)]_vars

C14_WindowsShareOverlap ==
  \A i \in 1..(Len(ck_windows) - 1) :
    LET a == ck_windows[i]
        b == ck_windows[i + 1]
        shared == (a.from..a.to) \cap (b.from..b.to)
    IN  /\ Cardinality(shared) = ck_overlap
        /\ shared = (a.to - ck_overlap + 1)..a.to
        /\ shared = b.from..(b.from + ck_overlap - 1)

\* C15: chunking called with overlap_tokens >= max_tokens rejects the call or
\* clamps the overlap: no window is ever cut with the invalid overlap.
C15_InvalidOverlapNeverWindowed ==
  ck_overlap >= ck_max => (ck_pc # "window" /\ ck_windows = <<>>)

\* the lines of a text
RECURSIVE LinesOf(_, _)
LinesOf(t, cur) ==
  IF Len(t) = 0 THEN <<cur>>
  ELSE IF t[1] = "\n" THEN <<cur>> \o LinesOf(Tail(t), <<>>)
  ELSE LinesOf(Tail(t), Append(cur, t[1]))

\* a level-2 heading line
IsH2(line) ==
  Len(line) >= 3 /\ line[1] = "#" /\ line[2] = "#" /\ line[3] = " "

H2Count(t) ==
  Cardinality({j \in 1..Len(LinesOf(t, <<>>)) : IsH2(LinesOf(t, <<>>)[j])})

\* C16: split_by_headings starts a segment at every level-2 heading line: a
\* segment has no level-2 heading after its first line, every level-2 heading
\* of the input opens a segment of its own, and text before the first heading
\* is a segment without a heading.
C16_SegmentPerHeading ==
  ck_pc \notin {"idle", "called"}
  => /\ \A i \in 1..Len(ck_texts) :
          \A j \in 2..Len(LinesOf(ck_texts[i], <<>>)) :
            ~IsH2(LinesOf(ck_texts[i], <<>>)[j])
     /\ Cardinality({i \in 1..Len(ck_texts) : IsH2(LinesOf(ck_texts[i], <<>>)[1])})
          = H2Count(ck_doc)
     /\ (Strip(LinesOf(ck_doc, <<>>)[1]) # <<>> /\ ~IsH2(LinesOf(ck_doc, <<>>)[1])
         => Len(ck_texts) >= 1 /\ ~IsH2(LinesOf(ck_texts[1], <<>>)[1]))

C18_EveryDocumentAttemptedOnce ==
  in_pc \in {"done", "aborted", "returned"}
  => /\ \A k \in 1..Len(in_docs) : in_attempts[k] = 1
     /\ (in_pc = "returned"
         => in_results.successful + in_results.failed = Len(in_docs))

\* C19: in every result bulk_ingest returns, the error list has one entry per
\* failed document, so failed > 0 makes it non-empty (and makes
\* initialize_rag_system report the failure).
C19_FailuresAreRecorded ==
  in_pc = "returned"
  => /\ Len(in_results.errors) = in_results.failed
     /\ (in_results.failed > 0 => in_ready = FALSE)

\* C20: when the embedding provider is not configured, or its call fails, the
\* document is reported failed and no point is upserted for it: no document
\* is counted successful without a key, and no stored vector is a placeholder.
C20_NoPlaceholderVectors ==
  in_path = "bulk_ingest"
  => /\ (~in_key => in_results.successful = 0)
     /\ \A pt \in in_points : pt.vector # "placeholder"

\* C22: the local extractive responder calls no network service: no call of
\* LocalResponseService.generate_response is followed by a retrieve call
\* (embedding and vector search) of its own.
C22_LocalResponderOffline ==
  \A i \in 1..(Len(calls) - 1) :
    calls[i] = "local" => calls[i + 1] \notin {"retrieve", "retrieve_failed"}

\* the positions of the sources events of the stream
SourcesAt == {i \in 1..Len(events) : events[i].event = "sources"}

\* the positions of the chunk events that carry a piece of the answer
AnswerChunksAt ==
  {i \in 1..Len(events) :
     events[i].event = "chunk" /\ events[i].data # ProcessingMsg}

\* C27: every finished stream holds exactly one sources event, and it comes
\* before the first chunk event that carries a word of the answer.
C27_OneSourcesEventFirst ==
  pc = "end"
  => /\ Cardinality(SourcesAt) = 1
     /\ \A i \in SourcesAt : \A j \in AnswerChunksAt : i < j

\* the keywords generate_response extracts from the prompt it was called with
LrKeywords == _extract_keywords(Lower(lr_prompt))

\* the stripped sentences of the context it was called with
LrSentences ==
  LET parts == SplitSentences(lr_context)
  IN  [i \in 1..Len(parts) |-> Strip(parts[i])]

\* how many keywords the i-th sentence holds
LrCount(i) == Matches(LrSentences[i], LrKeywords)

\* the sentences that hold at least one keyword
LrMatching == {i \in 1..Len(LrSentences) : LrCount(i) > 0}

\* how many matching sentences go before the i-th one: those with more
\* keywords, and the earlier ones with as many
LrRank(i) ==
  Cardinality({j \in LrMatching :
                 \/ LrCount(j) > LrCount(i)
                 \/ LrCount(j) = LrCount(i) /\ j < i})

\* the sentences of the answer: the first three matching ones by rank
LrExpected ==
  LET n == IF Cardinality(LrMatching) < 3 THEN Cardinality(LrMatching) ELSE 3
  IN  [k \in 1..n |-> LrSentences[CHOOSE i \in LrMatching : LrRank(i) = k - 1]]

\* C23: for a non-empty context with a sentence that holds a keyword of the
\* query, the local responder returns the preamble followed by at most three
\* sentences: the matching sentences with the most keywords, most keywords
\* first, equal counts in the order of the context, none without a keyword.
C23_TopThreeMatchingSentences ==
  (lr_pc = "returned" /\ lr_context # <<>> /\ LrMatching # {})
  => /\ ~lr_out.raised
     /\ lr_out.text
          = BasedOn \o <<"\n", "\n">> \o JoinWith(LrExpected, <<"\n">>)

\* four matching sentences, two of them with equal counts and a later one with
\* more keywords than an earlier one, answered with three
C23_Witness ==
  /\ lr_pc = "returned"
  /\ Cardinality(LrMatching) = 4
  /\ \E i, j \in LrMatching : i < j /\ LrCount(i) = LrCount(j)
  /\ \E i, j \in LrMatching : i < j /\ LrCount(i) < LrCount(j)
  /\ lr_out.text
       = BasedOn \o <<"\n", "\n">> \o JoinWith(LrExpected, <<"\n">>)
  /\ Len(LrExpected) = 3

\* the stripped lines of a text that are not blank
NonBlankLines(t) ==
  LET stripped == [j \in 1..Len(LinesOf(t, <<>>)) |-> Strip(LinesOf(t, <<>>)[j])]
  IN  SelectSeq(stripped, LAMBDA line : line # <<>>)

\* the non-blank lines of the segments, one segment after the other
RECURSIVE SegmentLines(_)
SegmentLines(segments) ==
  IF Len(segments) = 0 THEN <<>>
  ELSE NonBlankLines(segments[1]) \o SegmentLines(Tail(segments))

\* C28: split_by_headings loses no text: the non-blank lines of the segments,
\* taken in order, are the non-blank lines of the input, each of them once.
C28_NoTextLost ==
  ck_pc \notin {"idle", "called"} => SegmentLines(ck_texts) = NonBlankLines(ck_doc)

\* C29: chunk_multiple_files over pairwise distinct file paths returns chunks
\* with pairwise distinct ids.
C29_ChunkIdsDistinct ==
  (/\ in_path = "index_content"
   /\ \A j, k \in 1..Len(in_docs) : in_docs[j].path = in_docs[k].path => j = k)
  => \A i, j \in 1..Len(in_chunks) : in_chunks[i].id = in_chunks[j].id => i = j

\* the text w closes the text t
IsSuffix(w, t) ==
  Len(w) <= Len(t) /\ SubSeq(t, Len(t) - Len(w) + 1, Len(t)) = w

\* the windows _chunk_text has produced so far that end at the final token of
\* the document it is cutting
FinalWindows ==
  {i \in 1..Len(in_chunks) :
     in_chunks[i] # <<>> /\ IsSuffix(in_chunks[i], in_docs[in_k].content)}

\* C25: with 0 < overlap < max_tokens the token-window loop ends, and the
\* window that ends at the final token is produced only once: the loop of
\* _chunk_text (800/200) never outgrows the memory and never holds two windows
\* that end at the final token.
C25_WindowLoopTerminates ==
  in_path = "bulk_ingest"
  => /\ in_pc # "killed"
     /\ in_pc = "chunking" => Cardinality(FinalWindows) <= 1

\* C21: the collection has one dimensionality: every vector that is upserted
\* into it or sent as a query vector has the size the collection was created
\* with.
C21_OneDimensionality ==
  \A i \in 1..Len(col_log) :
    col_log[i].collection # 0 => col_log[i].size = col_log[i].collection

\* C26: when a primary service is configured, generate_streaming_response
\* yields the fragments of the primary service's streaming call, in order and
\* at least one; it yields the fixed 'not available' fragment only when no
\* primary service exists.
C26_StreamsPrimaryFragments ==
  gs_pc = "exhausted"
  => IF primary_service # "none"
     THEN /\ gs_out = provider_generate_streaming_response(
                         Service(primary_service), gs_api)
          /\ Len(gs_out) >= 1
     ELSE gs_out = <<MsgNotAvailableNow>>

\* the session a finished request belongs to: the id it gave, or the uuid
\* drawn for it
OwnSession(d) == IF d.session_id # "" THEN d.session_id ELSE d.fresh

\* the sessions whose history a step creates or changes
ChangedSessions ==
  {k \in DOMAIN conversation_store' :
     k \notin DOMAIN conversation_store
     \/ conversation_store'[k] # conversation_store[k]}

\* C24: whatever the order in which the requests in flight are handled, a
\* request of session s reads and changes no history but conversation_store[s],
\* and nothing but the handling of a request changes a history.
C24_SessionIsolation ==
  [][IF Len(chat_done') = Len(chat_done) + 1
     THEN LET d == chat_done'[Len(chat_done')]
          IN  /\ d.touched \subseteq {OwnSession(d)}
              /\ ChangedSessions \subseteq {OwnSession(d)}
     ELSE ChangedSessions = {}]_vars

\* two requests of different sessions were in flight together, the later one
\* was handled first, and each left a turn in its own history
C24_Witness ==
  /\ Len(chat_done) = 2
  /\ chat_done[1].id = 2 /\ chat_done[2].id = 1
  /\ OwnSession(chat_done[1]) # OwnSession(chat_done[2])
  /\ \A i \in 1..2 :
       /\ chat_done[i].appended = 2
       /\ Len(conversation_store[OwnSession(chat_done[i])]) = 2

\* the roles of a history alternate, the user first
Alternates(history) ==
  /\ Len(history) % 2 = 0
  /\ \A i \in 1..Len(history) :
       history[i].role = IF i % 2 = 1 THEN "user" ELSE "assistant"

\* C30: every history of conversation_store has even length and alternates
\* user and assistant, the user first, and a request that ended in an error
\* has appended no turn.
C30_HistoryWellFormed ==
  /\ \A k \in DOMAIN conversation_store : Alternates(conversation_store[k])
  /\ \A i \in 1..Len(chat_done) :
       chat_done[i].status >= 400 => chat_done[i].appended = 0


====
